---- MODULE Spec2Model ----
(***************************************************************************)
(* Model of the notarization transaction core (notarization-rs):           *)
(*   - the value model (TimeLock, LockMetadata, State, Data),              *)
(*   - the instruction compiler (programmable transaction builder,         *)
(*     move_utils, operations),                                            *)
(*   - the create-path validation (CreateNotarization::make_ptb),          *)
(*   - the transaction objects with their write-once compile cache,        *)
(*   - create materialization (apply_with_events),                         *)
(*   - the generic state query of the read-only client,                    *)
(*   - the ledger side of a submission (the notarization package and the   *)
(*     executor), modelled from the specification and the e2e tests,       *)
(*   - the builder's setters and the pure helpers called on their own,     *)
(*   - the construction of read-only clients over the shared registry.     *)
(* Rust strings and byte vectors are sequences of byte values; Option<T>   *)
(* is a sequence of length 0 (None) or 1 (Some); Result<T, Error> is a     *)
(* record [ok, kind, val].                                                 *)
(***************************************************************************)
EXTENDS Integers, Sequences, FiniteSets, TLC

VARIABLES
  client,      \* the CoreClientReadOnly the calls are made with: [package_id, network]
  registry,    \* NOTARIZATION_PACKAGE_REGISTRY: network name -> Option<package id>
  ledger,      \* the node's view of the target object: [exists, type, version]
  tx,          \* the transaction object's own fields (fixed at construction)
  cached_ptb,  \* tx.cached_ptb : OnceCell<ProgrammableTransaction> (Option)
  permit,      \* holder of the OnceCell's single semaphore permit (0 = free)
  consumed,    \* TRUE once the transaction object was moved into apply
  tasks,       \* the set of tasks that share &tx
  pc,          \* per task: position inside build_programmable_transaction (or the constructor)
  frame,       \* per task: locals of the running call [cachedAtStart, reads, tag, package_id, check]
  ret,         \* per task: what its last compile call returned
  applyIn,     \* the events and ledger answers handed to the last apply
  applyOut,    \* what the last apply returned
  rq,          \* the read-only state query in progress (client/read_only.rs)
  onchain,     \* the ledger the submissions execute on: object, clock, last submission
  fcall        \* the last call of a pure helper: [fn, arg, out] (Option)

vars == <<client, registry, ledger, tx, cached_ptb, permit, consumed, tasks,
          pc, frame, ret, applyIn, applyOut, rq, onchain, fcall>>

-----------------------------------------------------------------------------
(* Bounds of the model *)

\* longest payload handed to the decoding of a stored Data field, in bytes
MaxPayloadLen == 2
\* longest type string handed to parse_type on its own, in tokens
MaxTypeLen == 4
\* latest time the ledger's clock reaches
MaxClock == 2
\* most transactions submitted against one created object
MaxSubmits == 3
\* largest unlock time offered to UnlockAt
MaxUnlockAt == 1
\* number of distinct package ids / object ids / recipients
MaxId == 2
\* largest object version the ledger reaches
MaxVersion == 2
\* number of tasks sharing one transaction object
MaxTasks == 2
\* longest event list handed to apply_with_events
MaxEvents == 2

-----------------------------------------------------------------------------
(* Option and Result *)

NONE == <<>>
Some(v) == <<v>>
IsSome(o) == o # <<>>

\* Option::unwrap_or
unwrap_or(o, default) == IF o = <<>> THEN default ELSE o[1]

Ok(v) == [ok |-> TRUE, kind |-> "Ok", val |-> v]
Err(kind) == [ok |-> FALSE, kind |-> kind, val |-> <<>>]

-----------------------------------------------------------------------------
(* core/types/timelock.rs *)

UnlockAt(t) == [tag |-> "UnlockAt", t |-> t]
UntilDestroyed == [tag |-> "UntilDestroyed", t |-> 0]
TimeLockNone == [tag |-> "None", t |-> 0]

TimeLock == {UnlockAt(t) : t \in 1..MaxUnlockAt} \cup {UntilDestroyed, TimeLockNone}

LockMetadata == [update_lock : TimeLock, delete_lock : TimeLock, transfer_lock : TimeLock]

-----------------------------------------------------------------------------
(* core/types/state.rs *)

Bytes(b) == [kind |-> "Bytes", bytes |-> b]
Text(s) == [kind |-> "Text", bytes |-> s]

from_bytes(data, metadata) == [data |-> Bytes(data), metadata |-> metadata]
from_string(data, metadata) == [data |-> Text(data), metadata |-> metadata]

\* Data::as_bytes
as_bytes(d) == IF d.kind = "Bytes" THEN Ok(d.bytes) ELSE Err("GenericError")
\* Data::as_text
as_text(d) == IF d.kind = "Text" THEN Ok(d.bytes) ELSE Err("GenericError")

\* TypeTag values: [k, addr, path, args]
TagU8 == [k |-> "u8", addr |-> "", path |-> "", args |-> <<>>]
TagU64 == [k |-> "u64", addr |-> "", path |-> "", args |-> <<>>]
TagVector(t) == [k |-> "vector", addr |-> "", path |-> "", args |-> <<t>>]
TagStruct(a, p) == [k |-> "struct", addr |-> a, path |-> p, args |-> <<>>]

\* MOVE_STDLIB_PACKAGE_ID::string::String
TagString == TagStruct("0x1", "::string::String")

\* Data::tag
tag(d) == IF d.kind = "Bytes" THEN TagVector(TagU8) ELSE TagString

-----------------------------------------------------------------------------
(* BCS, the wire encoding of pure arguments and return values.  Lengths stay
   below 128, so a ULEB128 length is one byte. *)

\* Vec<u8> and String
BcsBytes(b) == <<Len(b)>> \o b
\* Option<String>
BcsOptString(o) == IF o = <<>> THEN <<0>> ELSE <<1>> \o BcsBytes(o[1])
\* u32, little endian, four bytes
BcsU32(n) == <<n % 256, (n \div 256) % 256, (n \div 65536) % 256, (n \div 16777216) % 256>>
\* IotaAddress: 32 bytes
BcsAddress(a) == [i \in 1..32 |-> IF i = 32 THEN a ELSE 0]

-----------------------------------------------------------------------------
(* ProgrammableTransactionBuilder: inputs are kept in an insertion-ordered
   map, so an input equal to an earlier one reuses its index; a move call
   appends a command and yields Argument::Result of its index. *)

PtbNew == [inputs |-> <<>>, commands |-> <<>>]

IndexOf(seq, x) == IF \E i \in 1..Len(seq) : seq[i] = x
                   THEN CHOOSE i \in 1..Len(seq) : seq[i] = x /\ \A j \in 1..(i-1) : seq[j] # x
                   ELSE 0

ArgInput(i) == [a |-> "Input", i |-> i]
ArgResult(i) == [a |-> "Result", i |-> i]

\* ptb.pure / ptb.obj: <<builder after the call, the argument>>
PtbInput(ptb, x) ==
  LET at == IndexOf(ptb.inputs, x) IN
  IF at # 0 THEN <<ptb, ArgInput(at - 1)>>
  ELSE <<[ptb EXCEPT !.inputs = Append(@, x)], ArgInput(Len(ptb.inputs))>>

PureInput(bytes) == [k |-> "Pure", v |-> bytes]
\* the shared clock object (IOTA_CLOCK_OBJECT_ID 0x6, initial shared version 1), immutable
ClockInput == [k |-> "SharedObject", v |-> <<6, 1>>]
\* ObjectArg::ImmOrOwnedObject of an object reference (id, version)
ObjectInput(ref) == [k |-> "ImmOrOwnedObject", v |-> <<ref.id, ref.version>>]

\* ptb.programmable_move_call
PtbCall(ptb, package, module, function, type_args, args) ==
  <<[ptb EXCEPT !.commands = Append(@, [package |-> package, module |-> module,
                                         function |-> function, type_args |-> type_args,
                                         args |-> args])],
    ArgResult(Len(ptb.commands))>>

\* move_utils::get_clock_ref
get_clock_ref(ptb) == PtbInput(ptb, ClockInput)

\* move_utils::ptb_pure (serialization of the bounded values never fails)
ptb_pure(ptb, bytes) == PtbInput(ptb, PureInput(bytes))

\* timelock.rs: new_unlock_at
new_unlock_at(ptb, unlock_time, package_id) ==
  LET c == get_clock_ref(ptb)
      u == ptb_pure(c[1], BcsU32(unlock_time))
  IN PtbCall(u[1], package_id, "timelock", "unlock_at", <<>>, <<u[2], c[2]>>)

\* timelock.rs: new_until_destroyed
new_until_destroyed(ptb, package_id) ==
  PtbCall(ptb, package_id, "timelock", "until_destroyed", <<>>, <<>>)

\* timelock.rs: new_none
new_none(ptb, package_id) ==
  PtbCall(ptb, package_id, "timelock", "none", <<>>, <<>>)

\* TimeLock::to_ptb
to_ptb(lock, ptb, package_id) ==
  CASE lock.tag = "UnlockAt" -> new_unlock_at(ptb, lock.t, package_id)
    [] lock.tag = "UntilDestroyed" -> new_until_destroyed(ptb, package_id)
    [] OTHER -> new_none(ptb, package_id)

\* state.rs: state_from_bytes
state_from_bytes(ptb, data, metadata, package_id) ==
  LET d == ptb_pure(ptb, BcsBytes(data))
      m == ptb_pure(d[1], BcsOptString(metadata))
  IN PtbCall(m[1], package_id, "notarization", "new_state_from_bytes", <<>>, <<d[2], m[2]>>)

\* state.rs: state_from_string
state_from_string(ptb, data, metadata, package_id) ==
  LET d == ptb_pure(ptb, BcsBytes(data))
      m == ptb_pure(d[1], BcsOptString(metadata))
  IN PtbCall(m[1], package_id, "notarization", "new_state_from_string", <<>>, <<d[2], m[2]>>)

\* faulty variant: the state metadata is not passed on
into_ptb_without_metadata(state, ptb, package_id) ==
  IF state.data.kind = "Bytes"
  THEN state_from_bytes(ptb, state.data.bytes, NONE, package_id)
  ELSE state_from_string(ptb, state.data.bytes, NONE, package_id)

\* State::into_ptb
into_ptb(state, ptb, package_id) ==
  IF state.data.kind = "Bytes"
  THEN state_from_bytes(ptb, state.data.bytes, state.metadata, package_id)
  ELSE state_from_string(ptb, state.data.bytes, state.metadata, package_id)

-----------------------------------------------------------------------------
(* core/operations.rs: the create operations *)

\* faulty variant: a locked create calls the create function of the dynamic module
new_locked_calls_dynamic_create(package_id, state, immutable_description, updatable_metadata, delete_lock) ==
  LET c == get_clock_ref(PtbNew)
      s == into_ptb(state, c[1], package_id)
      d == ptb_pure(s[1], BcsOptString(immutable_description))
      m == ptb_pure(d[1], BcsOptString(updatable_metadata))
      l == to_ptb(delete_lock, m[1], package_id)
      call == PtbCall(l[1], package_id, "dynamic_notarization", "create", <<tag(state.data)>>,
                      <<s[2], d[2], m[2], l[2], c[2]>>)
  IN Ok(call[1])

\* NotarizationOperations::new_locked
new_locked(package_id, state, immutable_description, updatable_metadata, delete_lock) ==
  LET c == get_clock_ref(PtbNew)
      s == into_ptb(state, c[1], package_id)
      d == ptb_pure(s[1], BcsOptString(immutable_description))
      m == ptb_pure(d[1], BcsOptString(updatable_metadata))
      l == to_ptb(delete_lock, m[1], package_id)
      call == PtbCall(l[1], package_id, "locked_notarization", "create", <<tag(state.data)>>,
                      <<s[2], d[2], m[2], l[2], c[2]>>)
  IN Ok(call[1])

\* NotarizationOperations::new_dynamic
new_dynamic(package_id, state, immutable_description, updatable_metadata, transfer_lock) ==
  LET c == get_clock_ref(PtbNew)
      s == into_ptb(state, c[1], package_id)
      d == ptb_pure(s[1], BcsOptString(immutable_description))
      m == ptb_pure(d[1], BcsOptString(updatable_metadata))
      l == to_ptb(transfer_lock, m[1], package_id)
      call == PtbCall(l[1], package_id, "dynamic_notarization", "create", <<tag(state.data)>>,
                      <<s[2], d[2], m[2], l[2], c[2]>>)
  IN Ok(call[1])

-----------------------------------------------------------------------------
(* package.rs *)

\* notarization_package_id: the registry entry of the client's network
notarization_package_id(reg, cl) ==
  IF reg[cl.network] = <<>> THEN Err("InvalidConfig") ELSE Ok(reg[cl.network][1])

-----------------------------------------------------------------------------
(* core/builder.rs *)

\* NotarizationBuilder::locked()
locked == [state |-> NONE, immutable_description |-> NONE, updatable_metadata |-> NONE,
           delete_lock |-> NONE, transfer_lock |-> NONE, method |-> "Locked"]

\* NotarizationBuilder::dynamic()
dynamic == [state |-> NONE, immutable_description |-> NONE, updatable_metadata |-> NONE,
            delete_lock |-> NONE, transfer_lock |-> NONE, method |-> "Dynamic"]

with_state(b, state) == [b EXCEPT !.state = Some(state)]
with_bytes_state(b, data, metadata) == with_state(b, from_bytes(data, metadata))
with_string_state(b, data, metadata) == with_state(b, from_string(data, metadata))
with_immutable_description(b, description) == [b EXCEPT !.immutable_description = Some(description)]
\* faulty variant: metadata that is already set is kept
with_updatable_metadata_once(b, metadata) ==
  IF b.updatable_metadata = NONE THEN [b EXCEPT !.updatable_metadata = Some(metadata)] ELSE b

with_updatable_metadata(b, metadata) == [b EXCEPT !.updatable_metadata = Some(metadata)]
\* Locked only
with_delete_lock(b, lock) == [b EXCEPT !.delete_lock = Some(lock)]
\* Dynamic only
with_transfer_lock(b, lock) == [b EXCEPT !.transfer_lock = Some(lock)]

\* NotarizationBuilder<Locked>::finish: always Ok(CreateNotarization::new(self))
finish_locked(b) == Ok([kind |-> "Create", builder |-> b])
\* NotarizationBuilder<Dynamic>::finish
finish_dynamic(b) == [kind |-> "Create", builder |-> b]

-----------------------------------------------------------------------------
(* core/transactions/create.rs: validation and compilation of a create *)

\* faulty variant: the transfer lock of a dynamic notarization is not compared with None
dynamic_invariants_without_transfer_check(locking) ==
  IF locking = <<>> THEN TRUE
  ELSE /\ locking[1].delete_lock = TimeLockNone
       /\ locking[1].update_lock = TimeLockNone

are_dynamic_notarization_invariants_ok(locking) ==
  IF locking = <<>> THEN TRUE
  ELSE /\ locking[1].delete_lock = TimeLockNone
       /\ locking[1].update_lock = TimeLockNone
       /\ locking[1].transfer_lock # TimeLockNone

\* faulty variant: a locked notarization must also carry a delete lock other than None
locked_invariants_require_delete_lock(locking) ==
  IF locking = <<>> THEN FALSE
  ELSE /\ locking[1].transfer_lock = UntilDestroyed
       /\ locking[1].update_lock = UntilDestroyed
       /\ locking[1].delete_lock # TimeLockNone

are_locked_notarization_invariants_ok(locking) ==
  IF locking = <<>> THEN FALSE
  ELSE /\ locking[1].transfer_lock = UntilDestroyed
       /\ locking[1].update_lock = UntilDestroyed

\* faulty variant: a missing state is replaced by a default instead of being rejected
require_state_or_default(state) == Ok(unwrap_or(state, from_bytes(<<>>, NONE)))

\* state.ok_or_else(|| InvalidArgument("State is required"))
require_state(state) == IF state = <<>> THEN Err("InvalidArgument") ELSE Ok(state[1])

\* faulty variant: each method rejects its own lock instead of the other method's
forbidden_lock_swapped(b) ==
  IF b.method = "Dynamic" THEN b.transfer_lock # <<>> ELSE b.delete_lock # <<>>

\* the lock of the other method: delete_lock.is_some() on Dynamic, transfer_lock.is_some() on Locked
forbidden_lock_is_set(b) ==
  IF b.method = "Dynamic" THEN b.delete_lock # <<>> ELSE b.transfer_lock # <<>>

\* the locking metadata make_ptb derives for a dynamic notarization
dynamic_locking(transfer_lock) ==
  IF transfer_lock = <<>> THEN NONE
  ELSE Some([update_lock |-> TimeLockNone, delete_lock |-> TimeLockNone,
             transfer_lock |-> transfer_lock[1]])

\* the locking metadata make_ptb derives for a locked notarization
locked_locking(delete_lock) ==
  Some([update_lock |-> UntilDestroyed,
        delete_lock |-> unwrap_or(delete_lock, TimeLockNone),
        transfer_lock |-> UntilDestroyed])

\* faulty variant: the delete lock of a locked notarization is not passed on
create_lock_argument_without_delete_lock(b) ==
  IF b.method = "Dynamic" THEN unwrap_or(b.transfer_lock, TimeLockNone)
  ELSE TimeLockNone

\* the lock handed to new_dynamic / new_locked
create_lock_argument(b) ==
  IF b.method = "Dynamic" THEN unwrap_or(b.transfer_lock, TimeLockNone)
  ELSE unwrap_or(b.delete_lock, TimeLockNone)

\* faulty variant: the builder is validated before the package id is looked up
make_ptb_create_validates_first(b, reg, cl) ==
  LET package_id == notarization_package_id(reg, cl)
      state == require_state(b.state)
  IN IF ~state.ok THEN state
     ELSE IF forbidden_lock_is_set(b) THEN Err("InvalidArgument")
     ELSE IF ~package_id.ok THEN package_id
     ELSE IF b.method = "Dynamic"
     THEN IF ~are_dynamic_notarization_invariants_ok(dynamic_locking(b.transfer_lock))
          THEN Err("InvalidArgument")
          ELSE new_dynamic(package_id.val, state.val, b.immutable_description,
                           b.updatable_metadata, create_lock_argument(b))
     ELSE IF ~are_locked_notarization_invariants_ok(locked_locking(b.delete_lock))
          THEN Err("InvalidArgument")
          ELSE new_locked(package_id.val, state.val, b.immutable_description,
                          b.updatable_metadata, create_lock_argument(b))

\* CreateNotarization::make_ptb
make_ptb_create(b, reg, cl) ==
  LET package_id == notarization_package_id(reg, cl)
      state == require_state(b.state)
  IN IF ~package_id.ok THEN package_id
     ELSE IF ~state.ok THEN state
     ELSE IF forbidden_lock_is_set(b) THEN Err("InvalidArgument")
     ELSE IF b.method = "Dynamic"
     THEN IF ~are_dynamic_notarization_invariants_ok(dynamic_locking(b.transfer_lock))
          THEN Err("InvalidArgument")
          ELSE new_dynamic(package_id.val, state.val, b.immutable_description,
                           b.updatable_metadata, create_lock_argument(b))
     ELSE IF ~are_locked_notarization_invariants_ok(locked_locking(b.delete_lock))
          THEN Err("InvalidArgument")
          ELSE new_locked(package_id.val, state.val, b.immutable_description,
                          b.updatable_metadata, create_lock_argument(b))

\* faulty variant: the forbidden lock is checked before the state
make_ptb_create_check_lock_first(b, reg, cl) ==
  IF ~notarization_package_id(reg, cl).ok THEN [failed |-> "package_id", derived |-> FALSE]
  ELSE IF forbidden_lock_is_set(b) THEN [failed |-> "forbidden_lock", derived |-> FALSE]
  ELSE IF ~require_state(b.state).ok THEN [failed |-> "state", derived |-> FALSE]
  ELSE LET locking == IF b.method = "Dynamic" THEN dynamic_locking(b.transfer_lock)
                      ELSE locked_locking(b.delete_lock)
           ok == IF b.method = "Dynamic" THEN are_dynamic_notarization_invariants_ok(locking)
                 ELSE are_locked_notarization_invariants_ok(locking)
       IN [failed |-> IF ok THEN "none" ELSE "invariants", derived |-> TRUE]

\* CreateNotarization::make_ptb, the path it takes: the check that returned
\* the error ("none" when all passed) and whether the LockMetadata was derived
make_ptb_create_check(b, reg, cl) ==
  IF ~notarization_package_id(reg, cl).ok THEN [failed |-> "package_id", derived |-> FALSE]
  ELSE IF ~require_state(b.state).ok THEN [failed |-> "state", derived |-> FALSE]
  ELSE IF forbidden_lock_is_set(b) THEN [failed |-> "forbidden_lock", derived |-> FALSE]
  ELSE LET locking == IF b.method = "Dynamic" THEN dynamic_locking(b.transfer_lock)
                      ELSE locked_locking(b.delete_lock)
           ok == IF b.method = "Dynamic" THEN are_dynamic_notarization_invariants_ok(locking)
                 ELSE are_locked_notarization_invariants_ok(locking)
       IN [failed |-> IF ok THEN "none" ELSE "invariants", derived |-> TRUE]

\* faulty variant: the clock reference is fetched from the ledger once the
\* package id is known, before the builder is validated
make_ptb_create_reads_clock_first(b, reg, cl) ==
  IF notarization_package_id(reg, cl).ok THEN 1 ELSE 0

\* the ledger reads CreateNotarization::make_ptb performs: the package id comes
\* from the in-process registry, validation is local, and new_dynamic /
\* new_locked only append to the builder (the clock reference is a constant)
make_ptb_create_reads(b, reg, cl) == 0

-----------------------------------------------------------------------------
(* Type strings.  A type string is a sequence of tokens ("vector", "<", "u8",
   ">", an address, a "::module::Name" path, ","); TypeTag::from_str parses
   one into a TypeTag and Display prints a TypeTag back. *)

Addresses == {"0x1", "0x2", "0xabc"}
Paths == {"::string::String", "::notarization::Notarization", "::coin::Coin"}

NoParse == [ok |-> FALSE, tag |-> TagU8, rest |-> <<>>]

RECURSIVE ParseTagAt(_, _)
\* one type tag at the front of toks: [ok, tag, rest]; fuel bounds the nesting
ParseTagAt(toks, fuel) ==
  IF fuel = 0 \/ toks = <<>> THEN NoParse
  ELSE LET h == Head(toks)
           r == Tail(toks)
       IN CASE h = "u8" -> [ok |-> TRUE, tag |-> TagU8, rest |-> r]
            [] h = "u64" -> [ok |-> TRUE, tag |-> TagU64, rest |-> r]
            [] h = "vector" ->
                 IF r # <<>> /\ Head(r) = "<"
                 THEN LET inner == ParseTagAt(Tail(r), fuel - 1)
                      IN IF inner.ok /\ inner.rest # <<>> /\ Head(inner.rest) = ">"
                         THEN [ok |-> TRUE, tag |-> TagVector(inner.tag), rest |-> Tail(inner.rest)]
                         ELSE NoParse
                 ELSE NoParse
            [] h \in Addresses ->
                 IF r # <<>> /\ Head(r) \in Paths
                 THEN [ok |-> TRUE, tag |-> TagStruct(h, Head(r)), rest |-> Tail(r)]
                 ELSE NoParse
            [] OTHER -> NoParse

\* TypeTag::from_str
TypeTag_from_str(toks) ==
  LET p == ParseTagAt(toks, Len(toks))
  IN IF p.ok /\ p.rest = <<>> THEN Ok(p.tag) ELSE Err("FailedToParseTag")

RECURSIVE TypeTag_to_string(_)
\* <TypeTag as Display>::to_string
TypeTag_to_string(t) ==
  CASE t.k = "vector" -> <<"vector", "<">> \o TypeTag_to_string(t.args[1]) \o <<">">>
    [] t.k = "struct" -> <<t.addr, t.path>>
    [] OTHER -> <<t.k>>

\* str::find / str::rfind of a one-token pattern: 0-based position, or -1
Find(s, c) == IF \E i \in 1..Len(s) : s[i] = c
              THEN (CHOOSE i \in 1..Len(s) : s[i] = c /\ \A j \in 1..(i-1) : s[j] # c) - 1
              ELSE -1
RFind(s, c) == IF \E i \in 1..Len(s) : s[i] = c
               THEN (CHOOSE i \in 1..Len(s) : s[i] = c /\ \A j \in (i+1)..Len(s) : s[j] # c) - 1
               ELSE -1

\* str::contains
Contains(s, pat) ==
  \E i \in 0..(Len(s) - Len(pat)) : \A j \in 1..Len(pat) : s[i + j] = pat[j]

-----------------------------------------------------------------------------
(* core/move_utils.rs *)

\* parse_type: the text between the first '<' and the last '>'.  The slice
\* full_type[start + 1..end] panics when start + 1 > end.
parse_type(full_type) ==
  LET start == Find(full_type, "<")
      end == RFind(full_type, ">")
  IN IF start >= 0 /\ end >= 0
     THEN IF start + 1 > end THEN Err("Panic")
          ELSE Ok(SubSeq(full_type, start + 2, end))
     ELSE Err("FailedToParseTag")

\* read_api().get_object_with_options(id, ..): the node's answer for the object
get_object_with_options(l, rpc_ok) ==
  IF ~rpc_ok THEN [rpc_ok |-> FALSE, data |-> NONE]
  ELSE [rpc_ok |-> TRUE,
        data |-> IF l.exists
                 THEN Some([type |-> l.type, ref |-> [id |-> l.id, version |-> l.version]])
                 ELSE NONE]

\* get_type_tag, after the read
get_type_tag(resp) ==
  IF ~resp.rpc_ok THEN Err("FailedToParseTag")
  ELSE IF resp.data = <<>> THEN Err("FailedToParseTag")
  ELSE LET type_param_str == parse_type(resp.data[1].type)
       IN IF ~type_param_str.ok THEN type_param_str
          ELSE TypeTag_from_str(type_param_str.val)

\* get_object_ref_by_id, after the read
get_object_ref_by_id(resp) ==
  IF ~resp.rpc_ok THEN Err("GenericError")
  ELSE IF resp.data = <<>> THEN Err("InvalidArgument")
  ELSE Ok(resp.data[1].ref)

-----------------------------------------------------------------------------
(* core/operations.rs: operations on an existing object *)

\* the additional_args closures handed to build_transaction: <<builder, arguments>>
\* faulty variant: the lock checks get no clock
additional_args_without_lock_check_clock(method, ptb, cl, t) ==
  CASE method = "update_state" ->
         LET s == into_ptb(t.state, ptb, cl.package_id)
             c == get_clock_ref(s[1])
         IN <<c[1], <<s[2], c[2]>>>>
    [] method = "update_metadata" ->
         LET m == ptb_pure(ptb, BcsOptString(t.metadata))
             c == get_clock_ref(m[1])
         IN <<c[1], <<m[2], c[2]>>>>
    [] method = "destroy" ->
         LET c == get_clock_ref(ptb)
         IN <<c[1], <<c[2]>>>>
    [] OTHER -> <<ptb, <<>>>>

additional_args(method, ptb, cl, t) ==
  CASE method = "update_state" ->
         LET s == into_ptb(t.state, ptb, cl.package_id)
             c == get_clock_ref(s[1])
         IN <<c[1], <<s[2], c[2]>>>>
    [] method = "update_metadata" ->
         LET m == ptb_pure(ptb, BcsOptString(t.metadata))
             c == get_clock_ref(m[1])
         IN <<c[1], <<m[2], c[2]>>>>
    [] method \in {"destroy", "is_update_locked", "is_destroy_allowed", "is_transfer_locked"} ->
         LET c == get_clock_ref(ptb)
         IN <<c[1], <<c[2]>>>>
    [] OTHER -> <<ptb, <<>>>>

\* NotarizationImpl::build_transaction, after its two reads (type tag first,
\* object reference second)
build_transaction(cl, type_tag, notarization, method, t) ==
  LET o == PtbInput(PtbNew, ObjectInput(notarization))
      extra == additional_args(method, o[1], cl, t)
      call == PtbCall(extra[1], cl.package_id, "notarization", method, <<type_tag>>,
                      <<o[2]>> \o extra[2])
  IN Ok(call[1])

\* faulty variant: transfer is called in the module of the shared functions
transfer_notarization_in_notarization_module(cl, type_tag, notarization, recipient) ==
  LET r == ptb_pure(PtbNew, BcsAddress(recipient))
      o == PtbInput(r[1], ObjectInput(notarization))
      c == get_clock_ref(o[1])
      call == PtbCall(c[1], cl.package_id, "notarization", "transfer", <<type_tag>>,
                      <<o[2], r[2], c[2]>>)
  IN Ok(call[1])

\* NotarizationOperations::transfer_notarization, after its two reads
transfer_notarization(cl, type_tag, notarization, recipient) ==
  LET r == ptb_pure(PtbNew, BcsAddress(recipient))
      o == PtbInput(r[1], ObjectInput(notarization))
      c == get_clock_ref(o[1])
      call == PtbCall(c[1], cl.package_id, "dynamic_notarization", "transfer", <<type_tag>>,
                      <<o[2], r[2], c[2]>>)
  IN Ok(call[1])

\* the method name each transaction kind compiles to
method_of(kind) ==
  CASE kind = "UpdateState" -> "update_state"
    [] kind = "UpdateMetadata" -> "update_metadata"
    [] kind = "Destroy" -> "destroy"
    [] OTHER -> "transfer"

\* UpdateState / UpdateMetadata / DestroyNotarization / TransferNotarization::make_ptb,
\* after the two reads
make_ptb_existing(t, cl, type_tag, notarization) ==
  IF t.kind = "Transfer" THEN transfer_notarization(cl, type_tag, notarization, t.recipient)
  ELSE build_transaction(cl, type_tag, notarization, method_of(t.kind), t)

-----------------------------------------------------------------------------
(* core/types/state.rs: Data::deserialize, the decoding of a stored Data field *)

IsContinuation(x) == x >= 128 /\ x <= 191

RECURSIVE IsUtf8(_)
\* String::from_utf8(bytes).is_ok()
IsUtf8(b) ==
  IF b = <<>> THEN TRUE
  ELSE LET x == b[1]
           n == Len(b)
       IN IF x < 128 THEN IsUtf8(Tail(b))
          ELSE IF x >= 194 /\ x <= 223
          THEN n >= 2 /\ IsContinuation(b[2]) /\ IsUtf8(SubSeq(b, 3, n))
          ELSE IF x >= 224 /\ x <= 239
          THEN /\ n >= 3 /\ IsContinuation(b[2]) /\ IsContinuation(b[3])
               /\ (x = 224 => b[2] >= 160) /\ (x = 237 => b[2] <= 159)
               /\ IsUtf8(SubSeq(b, 4, n))
          ELSE IF x >= 240 /\ x <= 244
          THEN /\ n >= 4 /\ IsContinuation(b[2]) /\ IsContinuation(b[3]) /\ IsContinuation(b[4])
               /\ (x = 240 => b[2] >= 144) /\ (x = 244 => b[2] <= 143)
               /\ IsUtf8(SubSeq(b, 5, n))
          ELSE FALSE

\* faulty variant: vertical tab counts as whitespace
is_graphic_or_whitespace_with_vertical_tab(x) ==
  (x >= 33 /\ x <= 126) \/ x \in {9, 10, 11, 12, 13, 32}

\* char::is_ascii_graphic() || char::is_ascii_whitespace(), on a byte of the text
is_graphic_or_whitespace(x) == (x >= 33 /\ x <= 126) \/ x \in {9, 10, 12, 13, 32}

\* faulty variant: every valid UTF-8 payload is taken as text
Data_deserialize_any_utf8(bytes) == IF IsUtf8(bytes) THEN Text(bytes) ELSE Bytes(bytes)

\* <Data as Deserialize>::deserialize, given the byte vector read
Data_deserialize(bytes) ==
  IF IsUtf8(bytes)
  THEN IF \A i \in 1..Len(bytes) : is_graphic_or_whitespace(bytes[i])
       THEN Text(bytes)
       ELSE Bytes(bytes)
  ELSE Bytes(bytes)

-----------------------------------------------------------------------------
(* core/transactions/create.rs: materialization of a create *)

\* serde_json::from_value::<Event<..Created>>(data.parsed_json): both created
\* events have the one field notarization_id; the event's Move type is not read
parse_created_event(method, ev) ==
  IF method = "Dynamic"
  THEN IF ev.parsed_json = <<>> THEN Err("TransactionUnexpectedResponse")
       ELSE Ok(ev.parsed_json[1])
  ELSE IF ev.parsed_json = <<>> THEN Err("TransactionUnexpectedResponse")
       ELSE Ok(ev.parsed_json[1])

\* get_object_ref_by_id_with_bcs::<OnChainNotarization>, given the node's answer
get_object_ref_by_id_with_bcs(resp) ==
  IF ~resp.rpc_ok THEN Err("ObjectLookup")
  ELSE IF resp.data = <<>> THEN Err("ObjectLookup")
  ELSE IF resp.data[1].bcs = <<>> THEN Err("ObjectLookup")
  ELSE IF ~resp.data[1].bcs[1].is_move THEN Err("ObjectLookup")
  ELSE IF ~resp.data[1].bcs[1].well_formed THEN Err("ObjectLookup")
  ELSE LET o == resp.data[1].bcs[1]
       IN Ok([id |-> o.id,
              state |-> [data |-> Data_deserialize(o.data), metadata |-> o.metadata],
              method |-> o.method])

\* faulty variant: the last event is read
last_event(events) == IF events = <<>> THEN NONE ELSE Some(events[Len(events)])

\* which event apply_with_events reads: events.data.first()
first_event(events) == IF events = <<>> THEN NONE ELSE Some(events[1])

\* the error kind the failed follow-up fetch is mapped to
fetch_error_kind(e) == "ObjectLookup"

\* CreateNotarization::apply_with_events; chain[id] is the node's answer for id
apply_with_events(t, events, chain) ==
  LET method == t.builder.method
      data == first_event(events)
  IN IF data = <<>> THEN Err("TransactionUnexpectedResponse")
     ELSE LET notarization_id == parse_created_event(method, data[1])
          IN IF ~notarization_id.ok THEN notarization_id
             ELSE LET notarization == get_object_ref_by_id_with_bcs(chain[notarization_id.val])
                  IN IF ~notarization.ok THEN Err(fetch_error_kind(notarization.kind))
                     ELSE notarization

\* faulty variant: the object id is handed back as the output
apply_returns_object_id(t) == Ok(<<t.object_id>>)

\* UpdateState / UpdateMetadata / DestroyNotarization / TransferNotarization::apply:
\* the effects are not looked at, the output is ()
apply(t) == Ok(<<>>)

-----------------------------------------------------------------------------
(* tokio::sync::OnceCell as the transaction objects use it (cached_ptb) *)

\* faulty variant: the cell never reports a stored value
never_initialized(cell) == FALSE

\* OnceCell::initialized
initialized(cell) == cell # <<>>

\* faulty variant: the semaphore hands out its permit while it is held
permit_always_free(p) == TRUE

\* the permit of the cell's semaphore can be taken
permit_free(p) == p = 0

\* faulty variant: whatever the initializer returned is stored
cell_after_any_init(cell, r) == Some(r.val)

\* get_or_try_init, after the initializer returned r: the value is stored only
\* when the initializer succeeded
cell_after_init(cell, r) == IF r.ok THEN Some(r.val) ELSE cell

\* what get_or_try_init returns after the initializer returned r
init_return(cell, r) == IF r.ok THEN Ok(cell_after_init(cell, r)[1]) ELSE r

\* faulty variant: apply borrows the object
apply_borrows_self == FALSE

\* apply and apply_with_events take self by value: the object is moved
apply_moves_self == TRUE

-----------------------------------------------------------------------------
(* Inputs *)

Ids == 1..MaxId
Network == "localnet"

OptString == {NONE, Some(<<67>>)}
OptTimeLock == {NONE} \cup {Some(l) : l \in TimeLock}
StateValues == {from_bytes(<<>>, NONE), from_bytes(<<65>>, Some(<<67>>)), from_string(<<65>>, NONE)}

\* every builder the setters (and the public fields) can produce
Builders == [state : {NONE} \cup {Some(v) : v \in StateValues},
             immutable_description : OptString,
             updatable_metadata : OptString,
             delete_lock : OptTimeLock,
             transfer_lock : OptTimeLock,
             method : {"Locked", "Dynamic"}]

\* a transaction object: CreateNotarization, UpdateState, UpdateMetadata,
\* DestroyNotarization or TransferNotarization (fields it does not have are fixed)
Tx(kind, b, state, metadata, recipient) ==
  [kind |-> kind, builder |-> b, state |-> state, metadata |-> metadata,
   recipient |-> recipient, object_id |-> 1]

CreateTx(b) == Tx("Create", b, from_bytes(<<>>, NONE), NONE, 1)

ExistingTxs ==
  {Tx("UpdateState", locked, from_string(<<65>>, Some(<<67>>)), NONE, 1),
   Tx("UpdateMetadata", locked, from_bytes(<<>>, NONE), Some(<<67>>), 1),
   Tx("Destroy", locked, from_bytes(<<>>, NONE), NONE, 1),
   Tx("Transfer", locked, from_bytes(<<>>, NONE), NONE, 2)}

\* the create transactions of the concurrent specification: one valid and one
\* invalid builder per method
SharedCreateTxs ==
  {CreateTx(with_bytes_state(with_delete_lock(locked, UnlockAt(1)), <<65>>, NONE)),
   CreateTx(with_string_state(with_transfer_lock(dynamic, UntilDestroyed), <<65>>, NONE)),
   CreateTx(with_transfer_lock(dynamic, TimeLockNone)),
   CreateTx(with_delete_lock(locked, TimeLockNone))}

\* the full type strings an object of the ledger can have
NotarizationOf(param) == <<"0x2", "::notarization::Notarization", "<">> \o param \o <<">">>
ObjectTypes == {NotarizationOf(<<"vector", "<", "u8", ">">>),
                NotarizationOf(<<"0x1", "::string::String">>)}

\* the ledger has no object under the id
NoLedgerObject == [exists |-> FALSE, type |-> <<>>, version |-> 1, id |-> 1]

Registries == {[n \in {Network} |-> e] : e \in {NONE} \cup {Some(p) : p \in Ids}}

NoFrame == [cachedAtStart |-> FALSE, reads |-> 0, tag |-> NONE, package_id |-> NONE,
            check |-> NONE]
Pending == Err("Pending")
Cancelled == Err("Cancelled")
NoApply == [events |-> <<>>, chain |-> <<>>]
\* no submission has been executed
NoChain == [object |-> NONE, clock |-> 0, created |-> NONE, updates |-> <<>>, submitted |-> 0,
            last |-> NONE]

-----------------------------------------------------------------------------
(* Initial states *)

InitCommon ==
  /\ client = [package_id |-> 1, network |-> Network]
  /\ cached_ptb = NONE
  /\ permit = 0
  /\ consumed = FALSE
  /\ pc = [t \in tasks |-> "idle"]
  /\ frame = [t \in tasks |-> NoFrame]
  /\ ret = [t \in tasks |-> Pending]
  /\ applyIn = NoApply
  /\ applyOut = NONE

\* a transaction object shared by MaxTasks tasks.  An operation on an existing
\* object starts with that object on the ledger at version 1 and a client whose
\* package is registered; a create has no object yet and any registry entry
Init ==
  /\ tasks = 1..MaxTasks
  /\ \/ /\ tx \in ExistingTxs
        /\ ledger \in [exists : {TRUE}, type : ObjectTypes, version : {1}, id : {1}]
        /\ registry = [n \in {Network} |-> Some(1)]
     \/ /\ tx \in SharedCreateTxs
        /\ ledger = NoLedgerObject
        /\ registry \in Registries
  /\ rq = NONE
  /\ onchain = NoChain
  /\ fcall = NONE
  /\ InitCommon

\* a create transaction of any builder, compiled by one caller
InitCreate ==
  /\ tasks = {1}
  /\ tx \in {CreateTx(b) : b \in Builders}
  /\ ledger = NoLedgerObject
  /\ registry \in Registries
  /\ rq = NONE
  /\ onchain = NoChain
  /\ fcall = NONE
  /\ InitCommon

-----------------------------------------------------------------------------
(* Transaction::build_programmable_transaction:
     self.cached_ptb.get_or_try_init(|| self.make_ptb(client)).await.cloned() *)

\* the call starts; an initialized cell answers at once
Compile(t) ==
  /\ ~consumed
  /\ pc[t] \in {"idle", "done"}
  /\ frame' = [frame EXCEPT ![t] = [NoFrame EXCEPT !.cachedAtStart = (cached_ptb # <<>>)]]
  /\ IF initialized(cached_ptb)
     THEN /\ pc' = [pc EXCEPT ![t] = "done"]
          /\ ret' = [ret EXCEPT ![t] = Ok(cached_ptb[1])]
     ELSE /\ pc' = [pc EXCEPT ![t] = "acquire"]
          /\ ret' = [ret EXCEPT ![t] = Pending]
  /\ UNCHANGED <<client, registry, ledger, tx, cached_ptb, permit, consumed, tasks,
                 applyIn, applyOut, rq, onchain, fcall>>

\* semaphore.acquire().await: the permit is granted, or the semaphore was
\* closed because the cell got its value meanwhile
Acquire(t) ==
  /\ pc[t] = "acquire"
  /\ initialized(cached_ptb) \/ permit_free(permit)
  /\ IF initialized(cached_ptb)
     THEN /\ pc' = [pc EXCEPT ![t] = "done"]
          /\ ret' = [ret EXCEPT ![t] = Ok(cached_ptb[1])]
          /\ permit' = permit
     ELSE /\ pc' = [pc EXCEPT ![t] = IF tx.kind = "Create" THEN "pkg" ELSE "tag"]
          /\ ret' = ret
          /\ permit' = t
  /\ UNCHANGED <<client, registry, ledger, tx, cached_ptb, consumed, tasks, frame,
                 applyIn, applyOut, rq, onchain, fcall>>

\* the initializer returned r to get_or_try_init, which holds the permit
Finish(t, r) ==
  /\ cached_ptb' = cell_after_init(cached_ptb, r)
  /\ ret' = [ret EXCEPT ![t] = init_return(cached_ptb, r)]
  /\ permit' = 0
  /\ pc' = [pc EXCEPT ![t] = "done"]

\* CreateNotarization::make_ptb: the registry read lock is awaited, the rest
\* runs without suspension
StepPkg(t) ==
  /\ pc[t] = "pkg"
  /\ Finish(t, make_ptb_create(tx.builder, registry, client))
  /\ frame' = [frame EXCEPT ![t].package_id = Some(notarization_package_id(registry, client)),
                            ![t].check = Some(make_ptb_create_check(tx.builder, registry, client)),
                            ![t].reads = @ + make_ptb_create_reads(tx.builder, registry, client)]
  /\ UNCHANGED <<client, registry, ledger, tx, consumed, tasks, applyIn, applyOut, rq, onchain, fcall>>

\* move_utils::get_type_tag: the first ledger read of make_ptb
StepTag(t) ==
  /\ pc[t] = "tag"
  /\ \E rpc_ok \in BOOLEAN :
       LET r == get_type_tag(get_object_with_options(ledger, rpc_ok))
       IN IF r.ok
          THEN /\ pc' = [pc EXCEPT ![t] = "ref"]
               /\ frame' = [frame EXCEPT ![t].reads = @ + 1, ![t].tag = Some(r.val)]
               /\ UNCHANGED <<cached_ptb, ret, permit>>
          ELSE /\ Finish(t, r)
               /\ frame' = [frame EXCEPT ![t].reads = @ + 1]
  /\ UNCHANGED <<client, registry, ledger, tx, consumed, tasks, applyIn, applyOut, rq, onchain, fcall>>

\* move_utils::get_object_ref_by_id: the second ledger read, then the rest of
\* make_ptb without suspension
StepRef(t) ==
  /\ pc[t] = "ref"
  /\ \E rpc_ok \in BOOLEAN :
       LET r == get_object_ref_by_id(get_object_with_options(ledger, rpc_ok))
       IN /\ Finish(t, IF r.ok THEN make_ptb_existing(tx, client, frame[t].tag[1], r.val) ELSE r)
          /\ frame' = [frame EXCEPT ![t].reads = @ + 1]
  /\ UNCHANGED <<client, registry, ledger, tx, consumed, tasks, applyIn, applyOut, rq, onchain, fcall>>

\* the future of a compile call is dropped at a suspension point; a held
\* permit goes back to the semaphore
Cancel(t) ==
  /\ pc[t] \in {"acquire", "pkg", "tag", "ref"}
  /\ pc' = [pc EXCEPT ![t] = "idle"]
  /\ ret' = [ret EXCEPT ![t] = Cancelled]
  /\ permit' = IF permit = t THEN 0 ELSE permit
  /\ UNCHANGED <<client, registry, ledger, tx, cached_ptb, consumed, tasks, frame,
                 applyIn, applyOut, rq, onchain, fcall>>

-----------------------------------------------------------------------------
(* Materialization: apply / apply_with_events take the object by value, which
   needs every borrow of it (every compile call in flight) to have ended *)

Materialize(events, chain) ==
  /\ ~consumed
  /\ \A t \in tasks : pc[t] \in {"idle", "done"}
  /\ consumed' = apply_moves_self
  /\ applyIn' = [events |-> events, chain |-> chain]
  /\ applyOut' = Some(IF tx.kind = "Create" THEN apply_with_events(tx, events, chain) ELSE apply(tx))
  /\ UNCHANGED <<client, registry, ledger, tx, cached_ptb, permit, tasks, pc, frame, ret, rq,
                 onchain, fcall>>

-----------------------------------------------------------------------------
(* The environment *)

\* another transaction changes or deletes the object, or the node answers
\* with another type for it
LedgerChange ==
  /\ ledger.exists
  /\ \/ /\ ledger.version < MaxVersion
        /\ ledger' = [ledger EXCEPT !.version = @ + 1]
     \/ ledger' = NoLedgerObject
     \/ \E ty \in ObjectTypes \ {ledger.type} : ledger' = [ledger EXCEPT !.type = ty]
  /\ UNCHANGED <<client, registry, tx, cached_ptb, permit, consumed, tasks, pc, frame, ret,
                 applyIn, applyOut, rq, onchain, fcall>>

\* NotarizationClientReadOnly::new_with_pkg_id of another client on the same
\* network: registry.insert_env(network, package_id)
RegistryInsert(p) ==
  /\ registry[Network] # Some(p)
  /\ registry' = [registry EXCEPT ![Network] = Some(p)]
  /\ UNCHANGED <<client, ledger, tx, cached_ptb, permit, consumed, tasks, pc, frame, ret,
                 applyIn, applyOut, rq, onchain, fcall>>

-----------------------------------------------------------------------------
(* What a submitted create hands to apply_with_events *)

EventValues == [type_ : {"DynamicNotarizationCreated", "LockedNotarizationCreated"},
                parsed_json : {NONE} \cup {Some(i) : i \in Ids}]
EventLists == UNION {[1..n -> EventValues] : n \in 0..MaxEvents}

NoObject == [is_move |-> FALSE, well_formed |-> FALSE, id |-> 0, data |-> <<>>,
             metadata |-> NONE, method |-> "Locked"]
StoredObject(i) == [is_move |-> TRUE, well_formed |-> TRUE, id |-> i, data |-> <<64 + i>>,
                    metadata |-> NONE, method |-> "Locked"]

\* the answers of get_object_with_options(id, bcs_lossless)
FetchFailures ==
  {[rpc_ok |-> FALSE, data |-> NONE],
   [rpc_ok |-> TRUE, data |-> NONE],
   [rpc_ok |-> TRUE, data |-> Some([bcs |-> NONE])],
   [rpc_ok |-> TRUE, data |-> Some([bcs |-> Some(NoObject)])],
   [rpc_ok |-> TRUE, data |-> Some([bcs |-> Some([NoObject EXCEPT !.is_move = TRUE])])]}
FetchFound(i) == [rpc_ok |-> TRUE, data |-> Some([bcs |-> Some(StoredObject(i))])]
Chains == {c \in [Ids -> FetchFailures \cup {FetchFound(i) : i \in Ids}] :
             \A i \in Ids : c[i] \in FetchFailures \cup {FetchFound(i)}}

CreatedEvent(i) == [type_ |-> "LockedNotarizationCreated", parsed_json |-> Some(i)]
AllFound == [i \in Ids |-> FetchFound(i)]

\* the valid create transactions materialization is explored for
InitApply ==
  /\ tasks = {1}
  /\ tx \in {CreateTx(with_bytes_state(locked, <<65>>, NONE)),
             CreateTx(with_string_state(dynamic, <<65>>, NONE))}
  /\ ledger = NoLedgerObject
  /\ registry = [n \in {Network} |-> Some(1)]
  /\ rq = NONE
  /\ onchain = NoChain
  /\ fcall = NONE
  /\ InitCommon

-----------------------------------------------------------------------------
(* client/read_only.rs: the generic state query.  rq holds the query in
   flight: the State<T> value the ledger stores for the object, the position
   of the call, what it has read so far and its result. *)

\* bcs::from_bytes of a Vec<u8> at the front of b: [ok, val, rest]
BcsTakeBytes(b) ==
  IF b = <<>> \/ b[1] >= 128 \/ Len(b) < 1 + b[1]
  THEN [ok |-> FALSE, val |-> <<>>, rest |-> <<>>]
  ELSE [ok |-> TRUE, val |-> SubSeq(b, 2, 1 + b[1]), rest |-> SubSeq(b, 2 + b[1], Len(b))]

\* bcs::from_bytes of a String: the bytes must be UTF-8
BcsTakeString(b) ==
  LET v == BcsTakeBytes(b)
  IN IF v.ok /\ IsUtf8(v.val) THEN v ELSE [ok |-> FALSE, val |-> <<>>, rest |-> <<>>]

\* bcs::from_bytes of an Option<String>: val is the option
BcsTakeOptString(b) ==
  IF b = <<>> THEN [ok |-> FALSE, val |-> NONE, rest |-> <<>>]
  ELSE IF b[1] = 0 THEN [ok |-> TRUE, val |-> NONE, rest |-> Tail(b)]
  ELSE IF b[1] = 1
  THEN LET v == BcsTakeString(Tail(b))
       IN [ok |-> v.ok, val |-> IF v.ok THEN Some(v.val) ELSE NONE, rest |-> v.rest]
  ELSE [ok |-> FALSE, val |-> NONE, rest |-> <<>>]

\* bcs::from_bytes::<State<Vec<u8>>> (as_string FALSE) and ::<State<String>>
\* (as_string TRUE): data, then metadata, and no byte may remain
bcs_from_bytes_State(b, as_string) ==
  LET d == IF as_string THEN BcsTakeString(b) ELSE BcsTakeBytes(b)
      m == BcsTakeOptString(d.rest)
  IN IF d.ok /\ m.ok /\ m.rest = <<>>
     THEN Ok([data |-> d.val, metadata |-> m.val])
     ELSE Err("DeserializationError")

\* the answers of dev_inspect_transaction_block to a call of notarization::state
\* on an object whose stored State<T> has the BCS bytes b
InspectAnswers(b) ==
  {[rpc_ok |-> FALSE, results |-> NONE],
   [rpc_ok |-> TRUE, results |-> NONE],
   [rpc_ok |-> TRUE, results |-> Some(<<>>)],
   [rpc_ok |-> TRUE, results |-> Some(<<[return_values |-> <<>>]>>)],
   [rpc_ok |-> TRUE, results |-> Some(<<[return_values |-> <<b>>]>>)],
   [rpc_ok |-> TRUE, results |-> Some(<<[return_values |-> <<b, <<9>>>>], [return_values |-> <<>>]>>)]}

\* execute_read_only_transaction::<State<Vec<u8>>> / ::<State<String>>
execute_read_only_transaction(resp, as_string) ==
  IF ~resp.rpc_ok THEN Err("UnexpectedApiResponse")
  ELSE IF resp.results = <<>> THEN Err("UnexpectedApiResponse")
  ELSE IF resp.results[1] = <<>> THEN Err("UnexpectedApiResponse")
  ELSE IF resp.results[1][1].return_values = <<>> THEN Err("InvalidArgument")
  ELSE bcs_from_bytes_State(resp.results[1][1].return_values[1], as_string)

\* the branch state() takes on the printed type tag
state_branch(type_str) ==
  IF type_str = <<"vector", "<", "u8", ">">> THEN "bytes"
  ELSE IF Contains(type_str, <<"::string::String">>) THEN "text"
  ELSE "unsupported"

\* state(), after the transaction was built: the simulation answer is decoded
\* by the branch
state_result(type_str, resp) ==
  LET as_string == state_branch(type_str) = "text"
      state == execute_read_only_transaction(resp, as_string)
  IN IF ~state.ok THEN state
     ELSE Ok([data |-> IF as_string THEN Text(state.val.data) ELSE Bytes(state.val.data),
              metadata |-> state.val.metadata])

\* u64, little endian, eight bytes; the numbers stored here stay below 2^31
BcsU64(n) == BcsU32(n) \o <<0, 0, 0, 0>>

\* the type parameters T of the Notarization<T> objects the query is made on
PBytes == <<"vector", "<", "u8", ">">>
PString == <<"0x1", "::string::String">>
PU64 == <<"u64">>
PVecString == <<"vector", "<", "0x1", "::string::String", ">">>
POtherString == <<"0xabc", "::string::String">>

\* the State<T>.data values stored on the ledger, in BCS: byte vectors (one of
\* them not UTF-8), strings, numbers, vectors of strings, and a struct of
\* another package with one byte-vector field
StoredData ==
  {[param |-> PBytes, data |-> BcsBytes(b)] : b \in {<<>>, <<65>>, <<200>>}}
    \cup {[param |-> PString, data |-> BcsBytes(b)] : b \in {<<>>, <<65>>}}
    \cup {[param |-> PU64, data |-> BcsU64(n)] : n \in {0, 65}}
    \cup {[param |-> PVecString, data |-> d] : d \in {<<0>>, <<1>> \o BcsBytes(<<>>), <<1>> \o BcsBytes(<<65>>)}}
    \cup {[param |-> POtherString, data |-> BcsBytes(<<65>>)]}

\* a query about to start on an object whose stored state is stored
NewQuery(stored) ==
  [pc |-> "tag", stored |-> stored, reads |-> 0, type_str |-> <<>>, type_tag |-> NONE,
   tx |-> NONE, inspected |-> NONE, out |-> Pending]

\* a state query on an object of each stored type, as the only activity
InitRead ==
  /\ tasks = {1}
  /\ tx = CreateTx(locked)
  /\ registry = [n \in {Network} |-> Some(1)]
  /\ \E st \in StoredData, m \in OptString :
       /\ ledger = [exists |-> TRUE, type |-> NotarizationOf(st.param), version |-> 1, id |-> 1]
       /\ rq = Some(NewQuery([data |-> st.data, metadata |-> m]))
  /\ onchain = NoChain
  /\ fcall = NONE
  /\ InitCommon

\* the query returns r
ReadDone(r) == rq' = Some([rq[1] EXCEPT !.pc = "done", !.out = r])

\* state(): move_utils::get_type_tag and type_tag.to_string()
ReadTag ==
  /\ rq # NONE /\ rq[1].pc = "tag"
  /\ \E rpc_ok \in BOOLEAN :
       LET r == get_type_tag(get_object_with_options(ledger, rpc_ok))
       IN IF r.ok
          THEN rq' = Some([rq[1] EXCEPT !.pc = "build_tag", !.reads = @ + 1,
                                        !.type_str = TypeTag_to_string(r.val)])
          ELSE ReadDone(r)
  /\ UNCHANGED <<client, registry, ledger, tx, cached_ptb, permit, consumed, tasks, pc, frame,
                 ret, applyIn, applyOut, onchain, fcall>>

\* NotarizationImpl::state -> build_transaction: its type-tag read
ReadBuildTag ==
  /\ rq # NONE /\ rq[1].pc = "build_tag"
  /\ \E rpc_ok \in BOOLEAN :
       LET r == get_type_tag(get_object_with_options(ledger, rpc_ok))
       IN IF r.ok
          THEN rq' = Some([rq[1] EXCEPT !.pc = "build_ref", !.reads = @ + 1,
                                        !.type_tag = Some(r.val)])
          ELSE ReadDone(r)
  /\ UNCHANGED <<client, registry, ledger, tx, cached_ptb, permit, consumed, tasks, pc, frame,
                 ret, applyIn, applyOut, onchain, fcall>>

\* build_transaction: its object-reference read and the call it builds; then
\* state() branches on the printed tag
ReadBuildRef ==
  /\ rq # NONE /\ rq[1].pc = "build_ref"
  /\ \E rpc_ok \in BOOLEAN :
       LET r == get_object_ref_by_id(get_object_with_options(ledger, rpc_ok))
       IN IF ~r.ok THEN ReadDone(r)
          ELSE LET built == build_transaction(client, rq[1].type_tag[1], r.val, "state", tx)
                   q == [rq[1] EXCEPT !.reads = @ + 1, !.tx = Some(built.val)]
               IN IF state_branch(rq[1].type_str) = "unsupported"
                  THEN rq' = Some([q EXCEPT !.pc = "done", !.out = Err("InvalidArgument")])
                  ELSE rq' = Some([q EXCEPT !.pc = "inspect"])
  /\ UNCHANGED <<client, registry, ledger, tx, cached_ptb, permit, consumed, tasks, pc, frame,
                 ret, applyIn, applyOut, onchain, fcall>>

\* execute_read_only_transaction: the node simulates the call, the first
\* return value is decoded
ReadInspect ==
  /\ rq # NONE /\ rq[1].pc = "inspect"
  /\ \E resp \in InspectAnswers(rq[1].stored.data \o BcsOptString(rq[1].stored.metadata)) :
       rq' = Some([rq[1] EXCEPT !.pc = "done", !.inspected = Some(resp),
                                !.out = state_result(rq[1].type_str, resp)])
  /\ UNCHANGED <<client, registry, ledger, tx, cached_ptb, permit, consumed, tasks, pc, frame,
                 ret, applyIn, applyOut, onchain, fcall>>

-----------------------------------------------------------------------------
(* Specifications *)

\* a submission whose first event names the created object, or no event at all
Submit ==
  \E events \in {<<>>, <<CreatedEvent(1)>>} : Materialize(events, AllFound)

Next ==
  \/ \E t \in tasks : Compile(t)
  \/ \E t \in tasks : Acquire(t)
  \/ \E t \in tasks : StepPkg(t)
  \/ \E t \in tasks : StepTag(t)
  \/ \E t \in tasks : StepRef(t)
  \/ \E t \in tasks : Cancel(t)
  \/ Submit
  \/ LedgerChange

Spec == Init /\ [][Next]_vars

NextCreate ==
  \/ \E t \in tasks : Compile(t)
  \/ \E t \in tasks : Acquire(t)
  \/ \E t \in tasks : StepPkg(t)
  \/ \E t \in tasks : Cancel(t)
  \/ Submit
  \/ \E p \in Ids : RegistryInsert(p)

SpecCreate == InitCreate /\ [][NextCreate]_vars

NextApply == ~consumed /\ \E events \in EventLists, chain \in Chains : Materialize(events, chain)

SpecApply == InitApply /\ [][NextApply]_vars

\* parse_type called on its own, on every short string over '<', '>' and
\* one other token
TypeStrings == UNION {[1..n -> {"<", ">", "T"}] : n \in 0..MaxTypeLen}

InitParse ==
  /\ tasks = {1}
  /\ tx = CreateTx(locked)
  /\ ledger = NoLedgerObject
  /\ registry = [n \in {Network} |-> Some(1)]
  /\ rq = NONE
  /\ onchain = NoChain
  /\ fcall = NONE
  /\ InitCommon

ParseType(full_type) ==
  /\ fcall' = Some([arg |-> full_type, out |-> parse_type(full_type)])
  /\ UNCHANGED <<client, registry, ledger, tx, cached_ptb, permit, consumed, tasks, pc, frame,
                 ret, applyIn, applyOut, rq, onchain>>

NextParse == \E full_type \in TypeStrings : ParseType(full_type)

SpecParse == InitParse /\ [][NextParse]_vars

-----------------------------------------------------------------------------
(* The pure helpers called on their own: Data::deserialize, the round trip of
   a state payload through a stored object, the two invariant checks
   (SpecPure), the builder's setters (SpecBuilder) and the compilation of each
   call of the package (SpecCall) *)

\* bytes of each class: tab, vertical tab, 'A', '~', DEL, the bytes of U+00A9
\* (a lead byte and a continuation byte), an invalid lead byte
PayloadBytes == {9, 11, 65, 126, 127, 169, 194, 255}
Payloads == UNION {[1..n -> PayloadBytes] : n \in 0..MaxPayloadLen}

\* the Data values a caller can hold: any bytes, and text that is a String
DataValues == {Bytes(b) : b \in Payloads} \cup {Text(b) : b \in {x \in Payloads : IsUtf8(x)}}

LockMetadatas == [update_lock : TimeLock, delete_lock : TimeLock, transfer_lock : TimeLock]

PureCall(fn, arg, out) ==
  /\ fcall' = Some([fn |-> fn, arg |-> arg, out |-> out])
  /\ UNCHANGED <<client, registry, ledger, tx, cached_ptb, permit, consumed, tasks, pc, frame,
                 ret, applyIn, applyOut, rq, onchain>>

\* the Data field of a stored object is decoded
DecodeData(bytes) == PureCall("deserialize", bytes, Data_deserialize(bytes))

\* a state with data d is sent as the pure argument of the state constructor,
\* stored under these bytes and fetched back with get_object_ref_by_id_with_bcs
RoundTrip(d) ==
  LET sent == BcsBytes(d.bytes)
      stored == [StoredObject(1) EXCEPT !.data = BcsTakeBytes(sent).val]
  IN PureCall("round_trip", d,
              get_object_ref_by_id_with_bcs([rpc_ok |-> TRUE,
                                             data |-> Some([bcs |-> Some(stored)])]))

CheckDynamic(locking) ==
  PureCall("dynamic_invariants", locking, are_dynamic_notarization_invariants_ok(locking))

CheckLocked(locking) ==
  PureCall("locked_invariants", locking, are_locked_notarization_invariants_ok(locking))

\* NotarizationBuilder::locked() / ::dynamic(): a builder chain starts
NewBuilder(method) ==
  LET b == IF method = "Locked" THEN locked ELSE dynamic
  IN PureCall("builder", [setter |-> "new", value |-> NONE, before |-> b, made_by |-> method], b)

\* the values handed to the setters
StateParts == [data : {<<>>, <<65>>}, metadata : OptString]
Strings == {<<67>>, <<68>>}

\* one more setter is called on the builder the chain has produced;
\* with_delete_lock exists on NotarizationBuilder<Locked> only and
\* with_transfer_lock on NotarizationBuilder<Dynamic> only
CallSetter(setter, value) ==
  /\ fcall # NONE /\ fcall[1].fn = "builder"
  /\ LET b == fcall[1].out
         made_by == fcall[1].arg.made_by
     IN /\ setter = "with_delete_lock" => made_by = "Locked"
        /\ setter = "with_transfer_lock" => made_by = "Dynamic"
        /\ PureCall("builder",
                    [setter |-> setter, value |-> value, before |-> b, made_by |-> made_by],
                    CASE setter = "with_state" -> with_state(b, value)
                      [] setter = "with_bytes_state" ->
                           with_bytes_state(b, value.data, value.metadata)
                      [] setter = "with_string_state" ->
                           with_string_state(b, value.data, value.metadata)
                      [] setter = "with_immutable_description" ->
                           with_immutable_description(b, value)
                      [] setter = "with_updatable_metadata" -> with_updatable_metadata(b, value)
                      [] setter = "with_delete_lock" -> with_delete_lock(b, value)
                      [] OTHER -> with_transfer_lock(b, value))

NextBuilder ==
  \/ \E method \in {"Locked", "Dynamic"} : NewBuilder(method)
  \/ \E state \in StateValues : CallSetter("with_state", state)
  \/ \E setter \in {"with_bytes_state", "with_string_state"}, part \in StateParts :
       CallSetter(setter, part)
  \/ \E setter \in {"with_immutable_description", "with_updatable_metadata"}, str \in Strings :
       CallSetter(setter, str)
  \/ \E setter \in {"with_delete_lock", "with_transfer_lock"}, lock \in TimeLock :
       CallSetter(setter, lock)

SpecBuilder == InitParse /\ [][NextBuilder]_vars

\* the accessors of NotarizationOperations compiled with build_transaction
Accessors == {"notarization_method", "is_update_locked", "is_destroy_allowed",
              "is_transfer_locked", "last_change", "version_count", "created_at",
              "description", "updatable_metadata", "lock_metadata", "state"}

\* what the node answers for the object: nothing, or an object of a
\* notarization type or of a type without type parameter
BuildLedgers ==
  {NoLedgerObject}
    \cup [exists : {TRUE}, type : ObjectTypes \cup {<<"T">>}, version : 1..MaxVersion, id : {1}]

\* NotarizationImpl::build_transaction (transfer_notarization for "transfer")
\* as a whole: the type tag is read, then the object reference, then the call
\* is compiled; either read can fail
BuildTransaction(method, t, l, tag_rpc_ok, ref_rpc_ok) ==
  LET type_tag == get_type_tag(get_object_with_options(l, tag_rpc_ok))
      notarization == get_object_ref_by_id(get_object_with_options(l, ref_rpc_ok))
  IN PureCall("build_transaction", [method |-> method, tx |-> t, ledger |-> l],
              [reads |-> IF type_tag.ok THEN <<"get_type_tag", "get_object_ref_by_id">>
                         ELSE <<"get_type_tag">>,
               ptb |-> IF ~type_tag.ok THEN type_tag
                       ELSE IF ~notarization.ok THEN notarization
                       ELSE IF method = "transfer"
                       THEN transfer_notarization(client, type_tag.val, notarization.val,
                                                  t.recipient)
                       ELSE build_transaction(client, type_tag.val, notarization.val, method, t)])

\* NotarizationImpl::new_locked / new_dynamic, reached through a create compile
CreateCall(b) == PureCall("create", b, make_ptb_create(b, registry, client))

NextCall ==
  \/ \E t \in ExistingTxs, l \in BuildLedgers, tag_rpc_ok \in BOOLEAN, ref_rpc_ok \in BOOLEAN :
       \E method \in {method_of(t.kind)} \cup (IF t.kind = "Destroy" THEN Accessors ELSE {}) :
         BuildTransaction(method, t, l, tag_rpc_ok, ref_rpc_ok)
  \/ \E b \in Builders : CreateCall(b)

SpecCall == InitParse /\ [][NextCall]_vars

NextPure ==
  \/ \E bytes \in Payloads : DecodeData(bytes)
  \/ \E d \in DataValues : RoundTrip(d)
  \/ \E locking \in {NONE} \cup {Some(l) : l \in LockMetadatas} : CheckDynamic(locking)
  \/ \E locking \in {NONE} \cup {Some(l) : l \in LockMetadatas} : CheckLocked(locking)

SpecPure == InitParse /\ [][NextPure]_vars

-----------------------------------------------------------------------------
(* The construction of read-only clients by concurrent tasks. The package
   registry is one RwLock for the process: a step that holds the write or the
   read guard is atomic, and tasks interleave at every await. *)

InitClients ==
  /\ tasks = 1..MaxTasks
  /\ tx = CreateTx(locked)
  /\ ledger = NoLedgerObject
  /\ registry \in Registries
  /\ rq = NONE
  /\ onchain = NoChain
  /\ fcall = NONE
  /\ InitCommon

\* NotarizationClientReadOnly::new_with_pkg_id up to the call of new_internal:
\* the network is asked for its id, then the entry of the network is inserted
\* or overridden under the write guard, which is dropped at the end of the
\* block; frame[t].package_id keeps the id the caller passed
NewWithPkgId(t, package_id, network_ok) ==
  /\ pc[t] = "idle"
  /\ IF network_ok
     THEN /\ registry' = [registry EXCEPT ![Network] = Some(package_id)]
          /\ pc' = [pc EXCEPT ![t] = "new_internal"]
          /\ frame' = [frame EXCEPT ![t].package_id = Some(Ok(package_id))]
          /\ UNCHANGED ret
     ELSE /\ pc' = [pc EXCEPT ![t] = "done"]
          /\ ret' = [ret EXCEPT ![t] = Err("RpcError")]
          /\ UNCHANGED <<registry, frame>>
  /\ UNCHANGED <<client, ledger, tx, cached_ptb, permit, consumed, tasks, applyIn, applyOut, rq,
                 onchain, fcall>>

\* NotarizationClientReadOnly::new up to the call of new_internal
New(t, network_ok) ==
  /\ pc[t] = "idle"
  /\ IF network_ok
     THEN /\ pc' = [pc EXCEPT ![t] = "new_internal"]
          /\ UNCHANGED ret
     ELSE /\ pc' = [pc EXCEPT ![t] = "done"]
          /\ ret' = [ret EXCEPT ![t] = Err("RpcError")]
  /\ UNCHANGED <<client, registry, ledger, tx, cached_ptb, permit, consumed, tasks, frame,
                 applyIn, applyOut, rq, onchain, fcall>>

\* NotarizationClientReadOnly::new_internal: the package id of the network is
\* read from the registry under the read guard and stored in the client
new_internal(reg, network) ==
  IF reg[network] = NONE THEN Err("InvalidConfig")
  ELSE Ok([package_id |-> reg[network][1], network |-> network])

NewInternal(t) ==
  /\ pc[t] = "new_internal"
  /\ pc' = [pc EXCEPT ![t] = "done"]
  /\ ret' = [ret EXCEPT ![t] = new_internal(registry, Network)]
  /\ UNCHANGED <<client, registry, ledger, tx, cached_ptb, permit, consumed, tasks, frame,
                 applyIn, applyOut, rq, onchain, fcall>>

\* the task drops what the constructor returned and is free to construct again
DropClient(t) ==
  /\ pc[t] = "done"
  /\ pc' = [pc EXCEPT ![t] = "idle"]
  /\ ret' = [ret EXCEPT ![t] = Pending]
  /\ frame' = [frame EXCEPT ![t] = NoFrame]
  /\ UNCHANGED <<client, registry, ledger, tx, cached_ptb, permit, consumed, tasks,
                 applyIn, applyOut, rq, onchain, fcall>>

NextClients ==
  \/ \E t \in tasks, package_id \in Ids, network_ok \in BOOLEAN :
       NewWithPkgId(t, package_id, network_ok)
  \/ \E t \in tasks, network_ok \in BOOLEAN : New(t, network_ok)
  \/ \E t \in tasks : NewInternal(t)
  \/ \E t \in tasks : DropClient(t)

SpecClients == InitClients /\ [][NextClients]_vars

NextRead == ReadTag \/ ReadBuildTag \/ ReadBuildRef \/ ReadInspect

SpecRead == InitRead /\ [][NextRead]_vars

-----------------------------------------------------------------------------
(* Reading a compiled create back *)

FromLeU32(b) == b[1] + 256 * b[2] + 65536 * b[3] + 16777216 * b[4]

\* the TimeLock a compiled create hands to create(..) as its lock argument
EncodedLock(ptb) ==
  LET create == ptb.commands[Len(ptb.commands)]
      lockCall == ptb.commands[create.args[4].i + 1]
  IN CASE lockCall.function = "none" -> TimeLockNone
       [] lockCall.function = "until_destroyed" -> UntilDestroyed
       [] OTHER -> UnlockAt(FromLeU32(ptb.inputs[lockCall.args[1].i + 1].v))

\* task t's compile call of the create transaction ran make_ptb and has returned
CreateDone(t) == tx.kind = "Create" /\ pc[t] = "done" /\ frame[t].package_id # NONE

\* the package lookup of task t's call resolved a package id
PackageResolved(t) == frame[t].package_id[1].ok

-----------------------------------------------------------------------------
(* The ledger side of a submission.  The notarization package that executes
   the compiled calls and the executor that submits them are not part of the
   Rust sources; they are modelled here from the specification and from what
   the e2e tests observe.  A compiled transaction is interpreted as compiled:
   the call is found by its module and function name, its arguments are
   decoded from the inputs and earlier commands they refer to. *)

\* the bytes of a pure input an argument refers to
ArgPure(ptb, arg) == ptb.inputs[arg.i + 1].v

\* the argument is the result of a state constructor call
IsStateArg(ptb, arg) ==
  /\ arg.a = "Result" /\ arg.i < Len(ptb.commands)
  /\ ptb.commands[arg.i + 1].module = "notarization"
  /\ ptb.commands[arg.i + 1].function \in {"new_state_from_bytes", "new_state_from_string"}

\* the State<T> such an argument stands for
ArgState(ptb, arg) ==
  LET c == ptb.commands[arg.i + 1]
      d == BcsTakeBytes(ArgPure(ptb, c.args[1])).val
      m == BcsTakeOptString(ArgPure(ptb, c.args[2])).val
  IN [data |-> IF c.function = "new_state_from_bytes" THEN Bytes(d) ELSE Text(d),
      metadata |-> m]

\* timelock: None is always open, UnlockAt(t) opens at t, UntilDestroyed never
is_timelocked(lock, now) ==
  CASE lock.tag = "UnlockAt" -> now < lock.t
    [] lock.tag = "UntilDestroyed" -> TRUE
    [] OTHER -> FALSE

is_update_locked(o, now) ==
  o.locking # NONE /\ is_timelocked(o.locking[1].update_lock, now)

is_transfer_locked(o, now) ==
  o.locking # NONE /\ is_timelocked(o.locking[1].transfer_lock, now)

\* a locked notarization is destroyed under its delete lock, a dynamic one
\* while it could be transferred
is_destroy_allowed(o, now) ==
  IF o.method = "Locked" THEN ~is_timelocked(o.locking[1].delete_lock, now)
  ELSE ~is_transfer_locked(o, now)

\* dynamic_notarization::create / locked_notarization::create: the object
\* created by a compiled create, or None when the call aborts
chain_create(ptb, now, sender) ==
  LET c == ptb.commands[Len(ptb.commands)] IN
  IF \/ c.function # "create" \/ c.module \notin {"dynamic_notarization", "locked_notarization"}
     \/ Len(c.args) # 5 \/ ~IsStateArg(ptb, c.args[1])
  THEN NONE
  ELSE LET s == ArgState(ptb, c.args[1])
           lock == EncodedLock(ptb)
       IN IF c.type_args # <<tag(s.data)>> THEN NONE
          ELSE Some([id |-> 1, version |-> 1, owner |-> sender, state |-> s,
                     description |-> BcsTakeOptString(ArgPure(ptb, c.args[2])).val,
                     updatable_metadata |-> BcsTakeOptString(ArgPure(ptb, c.args[3])).val,
                     locking |-> IF c.module = "locked_notarization"
                                 THEN Some([update_lock |-> UntilDestroyed, delete_lock |-> lock,
                                            transfer_lock |-> UntilDestroyed])
                                 ELSE IF lock = TimeLockNone THEN NONE
                                 ELSE Some([update_lock |-> TimeLockNone,
                                            delete_lock |-> TimeLockNone,
                                            transfer_lock |-> lock]),
                     method |-> IF c.module = "locked_notarization" THEN "Locked" ELSE "Dynamic",
                     state_version_count |-> 0, last_state_change_at |-> now,
                     created_at |-> now])

\* the execution of a compiled call, submitted by sender, on the object o:
\* [status, object after].  An owned object is an input of its owner only.
chain_call(ptb, o, now, sender) ==
  LET c == ptb.commands[Len(ptb.commands)]
      fail == [status |-> "Failure", object |-> Some(o)]
      done(after) == [status |-> "Success", object |-> after]
      on_object == /\ o.owner = sender
                   /\ c.args # <<>> /\ c.args[1].a = "Input"
                   /\ ptb.inputs[c.args[1].i + 1]
                        = ObjectInput([id |-> o.id, version |-> o.version])
                   /\ c.type_args = <<tag(o.state.data)>>
  IN IF ~on_object THEN fail
     ELSE CASE c.module = "notarization" /\ c.function = "update_state"
                 /\ Len(c.args) = 3 /\ IsStateArg(ptb, c.args[2]) ->
                 LET s == ArgState(ptb, c.args[2])
                 IN IF is_update_locked(o, now) \/ tag(s.data) # tag(o.state.data) THEN fail
                    ELSE done(Some([o EXCEPT !.state = s, !.state_version_count = @ + 1,
                                             !.last_state_change_at = now, !.version = @ + 1]))
            [] c.module = "notarization" /\ c.function = "update_metadata"
                 /\ Len(c.args) = 3 /\ c.args[2].a = "Input" ->
                 LET m == BcsTakeOptString(ArgPure(ptb, c.args[2]))
                 IN IF is_update_locked(o, now) \/ ~m.ok THEN fail
                    ELSE done(Some([o EXCEPT !.updatable_metadata = m.val, !.version = @ + 1]))
            [] c.module = "notarization" /\ c.function = "destroy" /\ Len(c.args) = 2 ->
                 IF is_destroy_allowed(o, now) THEN done(NONE) ELSE fail
            [] c.module = "dynamic_notarization" /\ c.function = "transfer"
                 /\ Len(c.args) = 3 /\ c.args[2].a = "Input" ->
                 IF is_transfer_locked(o, now) THEN fail
                 ELSE done(Some([o EXCEPT !.owner = ArgPure(ptb, c.args[2])[32],
                                          !.version = @ + 1]))
            [] OTHER -> fail

\* the answer of a simulated accessor call
chain_view(ptb, o, now) ==
  LET c == ptb.commands[Len(ptb.commands)]
  IN CASE c.function = "is_update_locked" -> Ok(is_update_locked(o, now))
       [] c.function = "is_transfer_locked" -> Ok(is_transfer_locked(o, now))
       [] c.function = "is_destroy_allowed" -> Ok(is_destroy_allowed(o, now))
       [] c.function = "lock_metadata" -> Ok(o.locking)
       [] OTHER -> Err("UnexpectedApiResponse")

\* TransactionBuilder::build_and_execute after the submission: a failure
\* reported in the effects is returned as an error, a success is materialized
execute(t, status) ==
  IF status = "Failure" THEN Err("TransactionUnexpectedResponse") ELSE apply(t)

\* what the node answers about the object
chain_ledger(object) ==
  IF object = NONE THEN NoLedgerObject
  ELSE [exists |-> TRUE, version |-> object[1].version, id |-> object[1].id,
        type |-> NotarizationOf(TypeTag_to_string(tag(object[1].state.data)))]

\* make_ptb of a transaction on an existing object, its two reads answered
compile_existing(t, cl, l) ==
  LET type_tag == get_type_tag(get_object_with_options(l, TRUE))
      notarization == get_object_ref_by_id(get_object_with_options(l, TRUE))
  IN IF ~type_tag.ok THEN type_tag
     ELSE IF ~notarization.ok THEN notarization
     ELSE make_ptb_existing(t, cl, type_tag.val, notarization.val)

\* an accessor call made now: operations.rs compiles the call of the method
\* on the object (no additional arguments but the clock), the node simulates it
Query(method) ==
  LET l == chain_ledger(onchain.object)
      type_tag == get_type_tag(get_object_with_options(l, TRUE))
      notarization == get_object_ref_by_id(get_object_with_options(l, TRUE))
  IN IF ~type_tag.ok THEN type_tag
     ELSE IF ~notarization.ok THEN notarization
     ELSE chain_view(build_transaction(client, type_tag.val, notarization.val, method,
                                       CreateTx(locked)).val,
                     onchain.object[1], onchain.clock)

\* the builders and transactions submitted
ChainBuilders ==
  {b \in Builders : /\ b.state \in {Some(from_bytes(<<65>>, NONE)), Some(from_string(<<65>>, NONE))}
                    /\ b.updatable_metadata = NONE
                    /\ IF b.method = "Locked" THEN b.transfer_lock = NONE
                       ELSE b.delete_lock = NONE}
ChainTxs ==
  {Tx("UpdateState", locked, st, NONE, 1) :
     st \in {from_bytes(<<66>>, NONE), from_string(<<66>>, Some(<<67>>)), from_string(<<65>>, NONE)}}
  \cup {Tx("UpdateMetadata", locked, from_bytes(<<>>, NONE), m, 1) : m \in {NONE, Some(<<68>>)}}
  \cup {Tx("Destroy", locked, from_bytes(<<>>, NONE), NONE, 1),
        Tx("Transfer", locked, from_bytes(<<>>, NONE), NONE, 2)}

InitChain ==
  /\ tasks = {1}
  /\ tx = CreateTx(locked)
  /\ ledger = NoLedgerObject
  /\ registry = [n \in {Network} |-> Some(1)]
  /\ rq = NONE
  /\ onchain = NoChain
  /\ fcall = NONE
  /\ InitCommon

\* a create is compiled, submitted and executed
ChainCreate(b) ==
  /\ onchain.created = NONE
  /\ \E compiled \in {make_ptb_create(b, registry, client)} :
     \E object \in {IF compiled.ok THEN chain_create(compiled.val, onchain.clock, 1) ELSE NONE} :
       onchain' = [onchain EXCEPT
                     !.object = object,
                     !.created = IF object = NONE THEN NONE ELSE Some(b),
                     !.last = Some([kind |-> "Create", tx |-> CreateTx(b), at |-> onchain.clock,
                                    before |-> NONE, asked |-> <<>>,
                                    status |-> IF ~compiled.ok THEN "NotSubmitted"
                                               ELSE IF object = NONE THEN "Failure"
                                               ELSE "Success",
                                    out |-> compiled])]
  /\ UNCHANGED <<client, registry, ledger, tx, cached_ptb, permit, consumed, tasks, pc, frame,
                 ret, applyIn, applyOut, rq, fcall>>

\* a transaction on the created object is compiled, submitted and executed
ChainSubmit(t) ==
  /\ onchain.created # NONE
  /\ onchain.submitted < MaxSubmits
  /\ \E compiled \in {compile_existing(t, client, chain_ledger(onchain.object))} :
     \E r \in {IF compiled.ok THEN chain_call(compiled.val, onchain.object[1], onchain.clock, 1)
               ELSE [status |-> "NotSubmitted", object |-> onchain.object]} :
       onchain' = [onchain EXCEPT
                     !.object = r.object,
                     !.submitted = @ + 1,
                     !.updates = IF t.kind = "UpdateState" /\ r.status = "Success"
                                 THEN Append(@, t.state) ELSE @,
                     !.last = Some([kind |-> t.kind, tx |-> t, at |-> onchain.clock,
                                    before |-> onchain.object,
                                    asked |-> [m \in {"is_destroy_allowed"} |-> Query(m)],
                                    status |-> r.status,
                                    out |-> IF compiled.ok THEN execute(t, r.status)
                                            ELSE compiled])]
  /\ UNCHANGED <<client, registry, ledger, tx, cached_ptb, permit, consumed, tasks, pc, frame,
                 ret, applyIn, applyOut, rq, fcall>>

\* time passes on the ledger's clock
Tick ==
  /\ onchain.clock < MaxClock
  /\ onchain' = [onchain EXCEPT !.clock = @ + 1]
  /\ UNCHANGED <<client, registry, ledger, tx, cached_ptb, permit, consumed, tasks, pc, frame,
                 ret, applyIn, applyOut, rq, fcall>>

NextChain ==
  \/ \E b \in ChainBuilders : ChainCreate(b)
  \/ \E t \in ChainTxs : ChainSubmit(t)
  \/ Tick

SpecChain == InitChain /\ [][NextChain]_vars

-----------------------------------------------------------------------------
(* Claims *)

DynamicCreateAsClaimed(t) ==
  LET b == tx.builder
      locking == dynamic_locking(b.transfer_lock)
  IN /\ b.transfer_lock = NONE
          => (locking = NONE /\ ret[t].ok /\ EncodedLock(ret[t].val) = TimeLockNone)
     /\ b.transfer_lock # NONE
          => /\ locking = Some([update_lock |-> TimeLockNone, delete_lock |-> TimeLockNone,
                                transfer_lock |-> b.transfer_lock[1]])
             /\ ret[t].ok <=> b.transfer_lock[1] # TimeLockNone
             /\ ~ret[t].ok => ret[t].kind = "InvalidArgument"
             /\ ret[t].ok => EncodedLock(ret[t].val) = b.transfer_lock[1]
     /\ ret[t].ok => (locking = NONE \/ locking[1].transfer_lock # TimeLockNone)

DynamicCreateCase(t) ==
  /\ CreateDone(t) /\ tx.builder.method = "Dynamic"
  /\ tx.builder.state # NONE /\ tx.builder.delete_lock = NONE

LockedCreateAsClaimed(t) ==
  LET b == tx.builder
      d == IF b.delete_lock = NONE THEN TimeLockNone ELSE b.delete_lock[1]
  IN /\ finish_locked(b).ok
     /\ ret[t].ok
     /\ locked_locking(b.delete_lock)
          = Some([update_lock |-> UntilDestroyed, delete_lock |-> d,
                  transfer_lock |-> UntilDestroyed])
     /\ EncodedLock(ret[t].val) = d

LockedCreateCase(t) ==
  /\ CreateDone(t) /\ tx.builder.method = "Locked"
  /\ tx.builder.state # NONE /\ tx.builder.transfer_lock = NONE

Returned(t) == pc[t] = "done" /\ ret[t].ok

\* C5: a compile call that starts after a compile has succeeded (the cell holds
\* a value) returns without a ledger read, and returns the very sequence every
\* earlier successful call returned, whatever happened to the ledger since.
C5_Memoized ==
  \A t \in tasks :
    (pc[t] = "done" /\ frame[t].cachedAtStart)
      => /\ ret[t].ok
         /\ frame[t].reads = 0
         /\ \A u \in tasks : Returned(u) => ret[u].val = ret[t].val

\* C5 witness: an operation on an existing object was compiled by one task,
\* the object then changed or vanished, and the other task compiled again
C5_Witness ==
  /\ tx.kind # "Create"
  /\ Returned(1) /\ ~frame[1].cachedAtStart /\ frame[1].reads = 2
  /\ Returned(2) /\ frame[2].cachedAtStart
  /\ (ledger.version > 1 \/ ~ledger.exists)

\* C6: the cache goes from empty to filled only in the step in which a compile
\* call's construction returns success, and it is filled with the value that
\* call returns; failed and cancelled calls leave it empty.
C6_FilledOnSuccessOnly ==
  [][(cached_ptb = NONE /\ cached_ptb' # NONE)
       => \E t \in tasks : /\ pc[t] \in {"pkg", "ref"}
                           /\ pc'[t] = "done"
                           /\ ret'[t] = Ok(cached_ptb'[1])]_vars

\* C6 witness: one task's compile failed at the type-tag lookup and the other
\* task's compile ran the whole construction with success
C6_Witness ==
  /\ pc[1] = "done" /\ ret[1].kind = "FailedToParseTag" /\ frame[1].reads = 1
  /\ Returned(2) /\ ~frame[2].cachedAtStart /\ frame[2].reads = 2
  /\ cached_ptb = Some(ret[2].val)

\* C7: under every interleaving of the tasks' compile calls a stored value is
\* never replaced, and every call that has returned success holds the stored
\* value.
C7_OneValueKept ==
  [][/\ cached_ptb # NONE => cached_ptb' = cached_ptb
     /\ \A t \in tasks : (pc'[t] = "done" /\ ret'[t].ok) => ret'[t] = Ok(cached_ptb'[1])]_vars

\* C7 witness: both tasks entered get_or_try_init on the empty cell; one ran
\* the construction, the other waited for the permit and got the stored value
\* without a ledger read
C7_Witness ==
  /\ tx.kind # "Create"
  /\ Returned(1) /\ ~frame[1].cachedAtStart /\ frame[1].reads = 0
  /\ Returned(2) /\ ~frame[2].cachedAtStart /\ frame[2].reads = 2
  /\ ret[1] = ret[2]

\* C8: apply_with_events answers from the first event and the object fetched
\* under that event's id alone: TransactionUnexpectedResponse without events or
\* when the first event does not parse, ObjectLookup when the fetch or its
\* decoding fails, the decoded notarization otherwise.
C8_FirstEventOnly ==
  applyOut # NONE =>
    LET events == applyIn.events
        r == applyOut[1]
    IN IF events = <<>> THEN r = Err("TransactionUnexpectedResponse")
       ELSE IF events[1].parsed_json = NONE THEN r = Err("TransactionUnexpectedResponse")
       ELSE LET id == events[1].parsed_json[1]
            IN IF applyIn.chain[id] \in FetchFailures THEN r = Err("ObjectLookup")
               ELSE /\ r.ok
                    /\ r.val.id = id
                    /\ r.val.state = [data |-> Text(StoredObject(id).data), metadata |-> NONE]

\* C8 witness: two events naming different objects, the second object cannot
\* be fetched, and the first one is returned
C8_Witness ==
  /\ applyOut # NONE /\ applyOut[1].ok /\ applyOut[1].val.id = 1
  /\ Len(applyIn.events) = 2
  /\ applyIn.events[2].parsed_json = Some(2)
  /\ applyIn.chain[2] \in FetchFailures

\* C9: once a materialize call has been made on the object, with success or
\* with failure, no compile and no materialize step happens on it any more.
C9_Consumed ==
  [][applyOut # NONE
       => UNCHANGED <<pc, ret, frame, cached_ptb, permit, applyIn, applyOut>>]_vars

\* C9 witness: a compiled create was materialized and the call failed
C9_Witness ==
  /\ consumed /\ applyOut # NONE /\ ~applyOut[1].ok
  /\ cached_ptb # NONE /\ tx.kind = "Create"

\* the simulation answered with a first result that has a return value
HasReturnValue(resp) ==
  /\ resp.rpc_ok /\ resp.results # NONE
  /\ resp.results[1] # <<>> /\ resp.results[1][1].return_values # <<>>

\* the query has returned after three successful reads and, if it went that
\* far, a simulation that returned the stored value
ReadReturned ==
  /\ rq # NONE /\ rq[1].pc = "done" /\ rq[1].reads = 3
  /\ rq[1].inspected # NONE => HasReturnValue(rq[1].inspected[1])

\* the type parameter of the object queried
QueriedParam == SubSeq(ledger.type, 4, Len(ledger.type) - 1)

\* C10: the state query decodes by the object's type tag: vector<u8> gives
\* Data::Bytes of the stored bytes, the string type gives Data::Text of the
\* stored string, the metadata is carried over, and every other tag gives
\* InvalidArgument.
C10_DecodeByTag ==
  ReadReturned =>
    LET out == rq[1].out
        stored == rq[1].stored
    IN IF QueriedParam = PBytes
       THEN /\ out.ok /\ out.val.data.kind = "Bytes"
            /\ BcsBytes(out.val.data.bytes) = stored.data
            /\ out.val.metadata = stored.metadata
       ELSE IF QueriedParam = PString
       THEN /\ out.ok /\ out.val.data.kind = "Text"
            /\ BcsBytes(out.val.data.bytes) = stored.data
            /\ out.val.metadata = stored.metadata
       ELSE out.kind = "InvalidArgument"

\* C11: when the simulation answers without a results field, with an empty
\* results list, or with a first result that has no return value, the decoder
\* returns UnexpectedApiResponse; otherwise its outcome is the decoding of the
\* first return value of the first result alone.
C11_MissingPayloadKind ==
  (rq # NONE /\ rq[1].pc = "done" /\ rq[1].inspected # NONE /\ rq[1].inspected[1].rpc_ok)
    => LET resp == rq[1].inspected[1]
           out == rq[1].out
       IN IF HasReturnValue(resp)
          THEN out.ok <=> bcs_from_bytes_State(resp.results[1][1].return_values[1],
                                                state_branch(rq[1].type_str) = "text").ok
          ELSE out = Err("UnexpectedApiResponse")

\* C17: a Dynamic builder with state set and transfer lock TimeLock::None
\* finishes and compiles into a create transaction without error (the package
\* id of the client's network being resolved).
C17_TransferLockNoneCompiles ==
  \A t \in tasks :
    (/\ DynamicCreateCase(t) /\ PackageResolved(t)
     /\ tx.builder.transfer_lock = Some(TimeLockNone)
     /\ finish_dynamic(tx.builder).builder = tx.builder)
      => ret[t].ok

\* C18: finish() of a Locked builder whose delete_lock was not set returns an
\* error.
C18_FinishRequiresDeleteLock ==
  \A t \in tasks :
    (CreateDone(t) /\ tx.builder.method = "Locked" /\ tx.builder.delete_lock = NONE)
      => ~finish_locked(tx.builder).ok

\* C19: every compile of a create transaction that ends in a validation
\* error (missing state, a lock of the other method, violated lock-metadata
\* invariants: InvalidArgument) has made no ledger read.
C19_ValidationBeforeReads ==
  \A t \in tasks :
    (CreateDone(t) /\ ~ret[t].ok /\ ret[t].kind = "InvalidArgument")
      => frame[t].reads = 0

\* C19 witness: a Dynamic create with state whose transfer lock None violates
\* the invariants was compiled and rejected without a read
C19_Witness ==
  /\ CreateDone(1) /\ PackageResolved(1) /\ tx.builder.method = "Dynamic"
  /\ tx.builder.state # NONE /\ tx.builder.delete_lock = NONE
  /\ tx.builder.transfer_lock = Some(TimeLockNone)
  /\ ret[1] = Err("InvalidArgument") /\ frame[1].reads = 0

\* C20: parse_type is total: when a '<' is followed somewhere by a '>' it
\* returns the text strictly between the first '<' and the last '>', in every
\* other case it returns FailedToParseTag, and it never panics.
C20_ParseTypeTotal ==
  fcall # NONE =>
    LET s == fcall[1].arg
        r == fcall[1].out
    IN IF \E i, j \in 1..Len(s) : i < j /\ s[i] = "<" /\ s[j] = ">"
       THEN r = Ok(SubSeq(s, Find(s, "<") + 2, RFind(s, ">")))
       ELSE r = Err("FailedToParseTag")

\* the last submission was made against the existing object by its owner
LastByOwner(kind) ==
  /\ onchain.last # NONE /\ onchain.last[1].kind = kind
  /\ onchain.last[1].before # NONE /\ onchain.last[1].before[1].owner = 1

\* the notarization was created from a builder of this method
CreatedAs(method) == onchain.created # NONE /\ onchain.created[1].method = method

C13_VersionCountsUpdates ==
  /\ (CreatedAs("Dynamic") /\ onchain.object # NONE)
       => LET o == onchain.object[1]
              n == Len(onchain.updates)
          IN /\ o.state_version_count = n
             /\ o.state = IF n = 0 THEN onchain.created[1].state[1] ELSE onchain.updates[n]
             /\ o.description = onchain.created[1].immutable_description
  /\ (CreatedAs("Dynamic") /\ LastByOwner("UpdateMetadata") /\ onchain.last[1].out.ok)
       => LET o == onchain.object[1]
              b == onchain.last[1].before[1]
          IN /\ o.updatable_metadata = onchain.last[1].tx.metadata
             /\ o.state_version_count = b.state_version_count
             /\ o.last_state_change_at = b.last_state_change_at
             /\ o.state = b.state
             /\ o.description = b.description

\* C13 witness: two updates of a text state, the second with state metadata,
\* then a metadata update at a later time
C13_Witness ==
  /\ CreatedAs("Dynamic") /\ Len(onchain.updates) = 2
  /\ onchain.updates[2] = from_string(<<66>>, Some(<<67>>))
  /\ LastByOwner("UpdateMetadata") /\ onchain.last[1].out.ok
  /\ onchain.last[1].tx.metadata = Some(<<68>>)
  /\ onchain.last[1].at > onchain.object[1].last_state_change_at
  /\ onchain.object[1].state_version_count = 2

C15_TransferLock ==
  CreatedAs("Dynamic")
    => LET b == onchain.created[1]
           locked_until(t) ==
             /\ onchain.object # NONE /\ onchain.clock < t
                  => /\ Query("is_transfer_locked") = Ok(TRUE)
                     /\ Query("is_update_locked") = Ok(FALSE)
             /\ (LastByOwner("Transfer") /\ onchain.last[1].at < t) => ~onchain.last[1].out.ok
             /\ (/\ LastByOwner("UpdateState") /\ onchain.last[1].at < t
                 /\ tag(onchain.last[1].tx.state.data) = tag(onchain.last[1].before[1].state.data))
                  => onchain.last[1].out.ok
       IN /\ (b.transfer_lock # NONE /\ b.transfer_lock[1].tag = "UnlockAt")
               => locked_until(b.transfer_lock[1].t)
          /\ b.transfer_lock = NONE
               => /\ onchain.object # NONE
                       => /\ Query("is_transfer_locked") = Ok(FALSE)
                          /\ Query("lock_metadata") = Ok(NONE)
                  /\ LastByOwner("Transfer") => onchain.last[1].out.ok

\* C15 witness: under transfer lock UnlockAt(1), at time 0, a state update
\* went through and the transfer after it was rejected
C15_Witness ==
  /\ CreatedAs("Dynamic") /\ onchain.created[1].transfer_lock = Some(UnlockAt(1))
  /\ onchain.clock = 0 /\ Len(onchain.updates) = 1
  /\ LastByOwner("Transfer") /\ ~onchain.last[1].out.ok
  /\ Query("is_transfer_locked") = Ok(TRUE)

\* C16: a notarization created from a Locked builder, whatever its delete
\* lock, has lock metadata, answers true to is_update_locked and
\* is_transfer_locked, keeps its created state and version count 0 while it
\* exists, and every update_state, update_metadata and transfer submitted
\* against it fails.
C16_LockedImmutable ==
  CreatedAs("Locked")
    => /\ onchain.object # NONE
            => /\ Query("is_update_locked") = Ok(TRUE)
               /\ Query("is_transfer_locked") = Ok(TRUE)
               /\ Query("lock_metadata").ok /\ Query("lock_metadata").val # NONE
               /\ onchain.object[1].method = "Locked"
               /\ onchain.object[1].state = onchain.created[1].state[1]
               /\ onchain.object[1].state_version_count = 0
       /\ \A kind \in {"UpdateState", "UpdateMetadata", "Transfer"} :
            LastByOwner(kind) => ~onchain.last[1].out.ok

\* C16 witness: a locked notarization with delete lock None still exists after
\* its lock time has passed and after a rejected update of a state of its type
C16_Witness ==
  /\ CreatedAs("Locked") /\ onchain.created[1].delete_lock = Some(TimeLockNone)
  /\ onchain.object # NONE /\ onchain.clock = MaxClock
  /\ LastByOwner("UpdateState") /\ ~onchain.last[1].out.ok
  /\ tag(onchain.last[1].tx.state.data) = tag(onchain.object[1].state.data)

\* the last call of a pure helper was a call of fn
Called(fn) == fcall # NONE /\ fcall[1].fn = fn

\* every byte is an ASCII graphic character (33..126) or ASCII whitespace
\* (space, tab, line feed, form feed, carriage return)
PrintableAscii(b) == \A i \in 1..Len(b) : b[i] \in (33..126) \cup {9, 10, 12, 13, 32}

\* C21: a stored payload is decoded as Text exactly when all of it is ASCII
\* graphic or ASCII whitespace (the empty payload included), and as Bytes with
\* the same bytes otherwise.
C21_TextIffPrintable ==
  Called("deserialize")
    => IF PrintableAscii(fcall[1].arg) THEN fcall[1].out = Text(fcall[1].arg)
       ELSE fcall[1].out = Bytes(fcall[1].arg)

\* C21 witness: the valid UTF-8 payload C2 A9 was decoded as Bytes
C21_Witness ==
  Called("deserialize") /\ fcall[1].arg = <<194, 169>> /\ fcall[1].out = Bytes(<<194, 169>>)

\* C22: a state payload read back from the stored object has the bytes that
\* were sent; the variant is the one sent exactly when the data was Text of
\* printable ASCII only or Bytes with a byte outside printable ASCII.
C22_RoundTripVariant ==
  Called("round_trip")
    => LET d == fcall[1].arg
           back == fcall[1].out
       IN /\ back.ok
          /\ back.val.state.data.bytes = d.bytes
          /\ back.val.state.data.kind = d.kind
               <=> IF d.kind = "Text" THEN PrintableAscii(d.bytes) ELSE ~PrintableAscii(d.bytes)
          /\ (d.kind = "Bytes" /\ PrintableAscii(d.bytes)) => back.val.state.data.kind = "Text"
          /\ (d.kind = "Text" /\ ~PrintableAscii(d.bytes)) => back.val.state.data.kind = "Bytes"

\* C22 witness: the bytes "A~" came back as Text
C22_Witness ==
  /\ Called("round_trip") /\ fcall[1].arg = Bytes(<<65, 126>>)
  /\ fcall[1].out.ok /\ fcall[1].out.val.state.data = Text(<<65, 126>>)

\* C23: the dynamic invariants hold exactly for no lock metadata and for lock
\* metadata with update lock None, delete lock None and a transfer lock other
\* than None.
C23_DynamicInvariants ==
  Called("dynamic_invariants")
    => LET l == fcall[1].arg
       IN fcall[1].out
            <=> \/ l = NONE
                \/ /\ l # NONE /\ l[1].update_lock.tag = "None" /\ l[1].delete_lock.tag = "None"
                   /\ l[1].transfer_lock.tag \in {"UnlockAt", "UntilDestroyed"}

\* C23 witness: {None, None, UnlockAt(1)} was accepted
C23_Witness ==
  /\ Called("dynamic_invariants") /\ fcall[1].out
  /\ fcall[1].arg = Some([update_lock |-> TimeLockNone, delete_lock |-> TimeLockNone,
                          transfer_lock |-> UnlockAt(1)])

\* C24: the locked invariants fail without lock metadata and otherwise hold
\* exactly when update lock and transfer lock are UntilDestroyed, whatever the
\* delete lock is.
C24_LockedInvariants ==
  Called("locked_invariants")
    => LET l == fcall[1].arg
       IN /\ l = NONE => ~fcall[1].out
          /\ l # NONE
               => /\ fcall[1].out <=> (/\ l[1].update_lock.tag = "UntilDestroyed"
                                       /\ l[1].transfer_lock.tag = "UntilDestroyed")
                  /\ \A d \in TimeLock :
                       are_locked_notarization_invariants_ok(Some([l[1] EXCEPT !.delete_lock = d]))
                         = fcall[1].out

\* C24 witness: {UntilDestroyed, None, UntilDestroyed} was accepted
C24_Witness ==
  /\ Called("locked_invariants") /\ fcall[1].out
  /\ fcall[1].arg = Some([update_lock |-> UntilDestroyed, delete_lock |-> TimeLockNone,
                          transfer_lock |-> UntilDestroyed])

\* the builder carries the lock its method forbids
CarriesForbiddenLock(b) ==
  \/ (b.method = "Dynamic" /\ b.delete_lock # NONE)
  \/ (b.method = "Locked" /\ b.transfer_lock # NONE)

CalledPackage(ptb) == ptb.commands[Len(ptb.commands)].package

\* C29: the package a compiled create calls is the package the client reports
\* with package_id(), the one its update, destroy, transfer and read-only calls
\* address, also after another client registered an override for the network.
C29_CreateCallsClientPackage ==
  \A t \in tasks :
    (CreateDone(t) /\ ret[t].ok) => CalledPackage(ret[t].val) = client.package_id

\* C30: when the registry has no package id for the client's network a create
\* compile returns InvalidConfig whatever the builder holds; InvalidArgument is
\* returned only when the package id resolved.
C30_LookupPrecedesValidation ==
  \A t \in tasks :
    CreateDone(t)
      => /\ ~PackageResolved(t) => (~ret[t].ok /\ ret[t].kind = "InvalidConfig")
         /\ (~ret[t].ok /\ ret[t].kind = "InvalidArgument") => PackageResolved(t)

\* C30 witness: a Locked builder without state and with a transfer lock was
\* rejected with InvalidConfig
C30_Witness ==
  /\ CreateDone(1) /\ ~PackageResolved(1)
  /\ tx.builder.method = "Locked" /\ tx.builder.state = NONE /\ tx.builder.transfer_lock # NONE
  /\ ret[1] = Err("InvalidConfig")

\* the field a setter writes
OwnField(setter) ==
  CASE setter \in {"with_state", "with_bytes_state", "with_string_state"} -> "state"
    [] setter = "with_immutable_description" -> "immutable_description"
    [] setter = "with_updatable_metadata" -> "updatable_metadata"
    [] setter = "with_delete_lock" -> "delete_lock"
    [] OTHER -> "transfer_lock"

\* the value the setter's field holds after the call
GivenValue(setter, value) ==
  CASE setter = "with_bytes_state" ->
         [data |-> [kind |-> "Bytes", bytes |-> value.data], metadata |-> value.metadata]
    [] setter = "with_string_state" ->
         [data |-> [kind |-> "Text", bytes |-> value.data], metadata |-> value.metadata]
    [] OTHER -> value

\* C27: in every chain of setter calls a setter writes the given value to its
\* own field and leaves the other fields as they were; the method stays the one
\* of locked() or dynamic(); a locked() builder never holds a transfer lock and
\* a dynamic() builder never holds a delete lock.
C27_SettersFrame ==
  Called("builder")
    => LET c == fcall[1].arg
           b == fcall[1].out
       IN /\ b.method = c.made_by
          /\ c.made_by = "Locked" => b.transfer_lock = NONE
          /\ c.made_by = "Dynamic" => b.delete_lock = NONE
          /\ c.setter # "new"
               => /\ b[OwnField(c.setter)] = Some(GivenValue(c.setter, c.value))
                  /\ \A f \in DOMAIN b : f # OwnField(c.setter) => b[f] = c.before[f]

\* C27 witness: updatable metadata already set was replaced by a second call,
\* on a dynamic builder that holds a state and a transfer lock
C27_Witness ==
  /\ Called("builder") /\ fcall[1].arg.setter = "with_updatable_metadata"
  /\ fcall[1].arg.before.updatable_metadata = Some(<<67>>)
  /\ fcall[1].out.updatable_metadata = Some(<<68>>)
  /\ fcall[1].out.state # NONE /\ fcall[1].out.transfer_lock # NONE

\* the calls that change the object or evaluate a lock
ClockMethods == {"update_state", "update_metadata", "destroy", "transfer", "is_update_locked",
                 "is_destroy_allowed", "is_transfer_locked"}

\* the arguments of the last call of a compiled sequence, as the inputs or
\* results they refer to
LastCall(ptb) == ptb.commands[Len(ptb.commands)]
Resolved(ptb, arg) == IF arg.a = "Input" THEN ptb.inputs[arg.i + 1] ELSE arg
TakesClock(ptb) ==
  \E i \in 1..Len(LastCall(ptb).args) : Resolved(ptb, LastCall(ptb).args[i]) = ClockInput

\* the number of arguments each method gets after the object reference
OwnArguments(method) ==
  CASE method \in {"update_state", "update_metadata", "transfer"} -> 2
    [] method \in {"destroy", "is_update_locked", "is_destroy_allowed", "is_transfer_locked"} -> 1
    [] OTHER -> 0

\* C26: a call on an existing object reads the type tag before the object
\* reference; the compiled sequence passes the object reference first, then the
\* operation's own arguments, in one call of the named method, which is its
\* last call; the clock is an argument of every call that changes the object or
\* evaluates a lock, of both creates, and of no other accessor.
C26_CallShape ==
  /\ Called("build_transaction")
       => LET c == fcall[1].arg
              reads == fcall[1].out.reads
              r == fcall[1].out.ptb
          IN /\ reads[1] = "get_type_tag"
             /\ Len(reads) = 2 => reads[2] = "get_object_ref_by_id"
             /\ r.ok
                  => /\ Len(reads) = 2
                     /\ LastCall(r.val).function = c.method
                     /\ Cardinality({i \in 1..Len(r.val.commands) :
                                       r.val.commands[i].function = c.method}) = 1
                     /\ Resolved(r.val, LastCall(r.val).args[1])
                          = ObjectInput([id |-> c.ledger.id, version |-> c.ledger.version])
                     /\ Len(LastCall(r.val).args) = 1 + OwnArguments(c.method)
                     /\ Len(LastCall(r.val).type_args) = 1
                     /\ TakesClock(r.val) <=> c.method \in ClockMethods
  /\ (Called("create") /\ fcall[1].out.ok)
       => (LastCall(fcall[1].out.val).function = "create" /\ TakesClock(fcall[1].out.val))

\* C26 witness: is_transfer_locked was compiled with the object and the clock
C26_Witness ==
  /\ Called("build_transaction") /\ fcall[1].arg.method = "is_transfer_locked"
  /\ fcall[1].out.ptb.ok
  /\ LastCall(fcall[1].out.ptb.val).args = <<ArgInput(0), ArgInput(1)>>
  /\ fcall[1].out.ptb.val.inputs[2] = ClockInput

\* C28: a client that new_with_pkg_id returned for the package id P reports
\* package_id() = P, whatever other constructors ran meanwhile.
C28_OverrideReported ==
  \A t \in tasks :
    (pc[t] = "done" /\ frame[t].package_id # NONE /\ ret[t].ok)
      => ret[t].val.package_id = frame[t].package_id[1].val

====
